---------------------------- MODULE Spec2Model ----------------------------
(***************************************************************************)
(* A model of the misophonia-dataset generation pipeline:                  *)
(*   - the Sampling Planner of GeneratedMisophoniaDataset.get_split        *)
(*     (_make_sampling_plan, make_idx_cycle) and _generate_one;            *)
(*   - the MisophoniaItem constructor with its validators;                 *)
(*   - PremadeMisophoniaDataset.save_split / prepare / get_split.          *)
(*                                                                         *)
(* numpy's generator is modelled as an oracle: the stream of a generator   *)
(* is an arbitrary but fixed function of the generator's seed.  The tape   *)
(* of a seed records the draws already made from that seed; a draw past    *)
(* the end of the tape may be any value of the draw's range and is then    *)
(* recorded, a draw inside the tape returns what is recorded.              *)
(***************************************************************************)
EXTENDS Integers, Sequences, FiniteSets, TLC

(***************************************************************************)
(* Bounds of the model.                                                    *)
(***************************************************************************)
MaxRuns == 2
MaxSamples == 2
MaxItems == 2
MaxWorkers == 2
MaxSubjects == 1

\* The value standing for Python's None where an object may stand.
None == [none |-> TRUE]

Splits == {"train", "val", "test"}

LabelTypes == {"trigger", "control", "background"}

(***************************************************************************)
(* Source data.  A SourceDataItem is modelled by its split, its label_type *)
(* and a name standing for its file and labels.                            *)
(***************************************************************************)
SourceDataItem(s, lt, nm, n) ==
    [split |-> s, label_type |-> lt, name |-> nm, labels |-> << nm >>,
     samples |-> n]

\* The metadata the source datasets return (an input of the model): per
\* split, "train" has 2 trigger, 1 control and 2 background items, "test"
\* has 1 trigger and 1 background item, "val" has 2 control items only.
\* The last field is the number of samples of the item's audio.
SourceConfigs ==
    { << SourceDataItem("train", "trigger", "t1", 2),
         SourceDataItem("train", "control", "c1", 1),
         SourceDataItem("test", "trigger", "t2", 1),
         SourceDataItem("train", "background", "b1", 1),
         SourceDataItem("train", "trigger", "t3", 1),
         SourceDataItem("test", "background", "b2", 2),
         SourceDataItem("train", "background", "b3", 2),
         SourceDataItem("val", "control", "c2", 1),
         SourceDataItem("val", "control", "c3", 2) >> }

\* (min, max) ranges given as foregrounds_per_item / backgrounds_per_item.
FgRanges == { <<1, 1>> }
BgRanges == { <<1, 2>> }

\* trig_to_control_ratio, in percent: 0.0, 0.5 and 1.0.
Ratios == {0, 50, 100}

\* Values of rng.random(), in percent; they lie in [0, 1).
Uniforms == {25, 75}

\* random_seed values, and the values an unseeded generator may start from.
Seeds == {42}
Entropy == {7, 42}
GenIds == Seeds \cup Entropy

\* Values of a per-item seed (standing for the 32-bit range).
ItemSeeds == {0, 1}

\* The streams an item's generator default_rng(seed) may have, and the
\* word that stream s yields at its i-th draw.
RawWords == {0, 1}
StreamWord(s, i) == (s + i) % 2

\* What the client of the library does in a behaviour:
\*   "plan"      calls get_split MaxRuns times with the same arguments;
\*   "generate"  calls get_split once and indexes the returned view;
\*   "construct" constructs MisophoniaItem objects from arbitrary values.
\*   "save"      saves one split view with save_split and loads splits with
\*               PremadeMisophoniaDataset objects.
\*   "index"     indexes and iterates a split view over a get_one function.
\*   "pair"      derives paired control items from persisted test items.
\*   "dummy"     calls create_dummy_data of the experiment's analysis.
\*   "split"     calls train_valid_test_split on a series of FreeSound ids.
\*   "workers"   calls get_split once and indexes the returned view from
\*               MaxWorkers threads at once.
\*   "mix"       calls binaural_mix and constructs an item from its result.
\*   "pad"       calls pad_and_normalize_audio_files.
\*   "pairs"     calls add_experimental_pairs_to_dataset on a saved dataset.
\*   "download"  calls download_files with one state file for all files.
Scenarios == {"plan", "generate", "construct", "save", "index", "pair", "dummy",
              "split", "workers", "mix", "pad", "pairs", "download"}

\* The arguments of get_split tried per scenario.
ArgsOf(sc) ==
    IF sc = "plan"
    THEN [split : Splits, num_samples : 1..MaxSamples,
          foregrounds_per_item : FgRanges, backgrounds_per_item : BgRanges,
          trig_to_control_ratio : Ratios, random_seed : Seeds]
    ELSE IF sc \in {"generate", "workers"}
    THEN [split : Splits, num_samples : 1..MaxSamples,
          foregrounds_per_item : FgRanges, backgrounds_per_item : BgRanges,
          trig_to_control_ratio : Ratios, random_seed : Seeds]
    ELSE [split : {"train"}, num_samples : {1},
          foregrounds_per_item : { <<1, 1>> },
          backgrounds_per_item : { <<1, 1>> },
          trig_to_control_ratio : {50}, random_seed : Seeds]

\* The number of get_split calls the client makes.
RunsOf(sc) == IF sc = "plan" THEN MaxRuns
              ELSE IF sc \in {"generate", "workers"} THEN 1 ELSE 0

VARIABLES
    scenario,             \* what the client does (fixed by Init)
    made,                 \* outcome of the latest MisophoniaItem construction
    view,                 \* a MisophoniaDatasetSplit: its num_samples
    called,               \* outcome of the latest __getitem__ / __iter__ on it
    source_data,          \* GeneratedMisophoniaDataset._source_data (metadata)
    gen_items_by_split,   \* GeneratedMisophoniaDataset._items_by_split
    args,                 \* the arguments of the get_split calls
    pc,                   \* position of the running get_split call
    rng_plan,             \* [gen, pos]: generator of the plan and draws made
    tape,                 \* the oracle: draws recorded per generator seed
    trig_cycle, ctrl_cycle, bg_cycle,      \* the index cycles (generators)
    is_trig_for_item, fg_indices_for_item, bg_indices_for_item, seeds_for_item,
    cur,                  \* locals of the loop body: num_fg, num_bg, fg, bg
    results,              \* what each finished get_split call returned/raised
    save_args,            \* the arguments of the save_split call
    disk_before,          \* the dataset directory when save_split is called
    disk,                 \* the dataset directory: one directory per split
    uuids,                \* the number of uuid4() values issued so far
    save,                 \* the save_split call: status, futures, rows written
    premade,              \* PremadeMisophoniaDataset._items_by_split
    loaded,               \* outcome of the latest prepare() / get_split()
    dummy,                \* create_dummy_data: position, pairs, records, df
    splitting,            \* train_valid_test_split: arguments and result
    workers,              \* per thread: the _generate_one call it is in
    mixed,                \* binaural_mix: arguments, renders made, result
    padded,               \* pad_and_normalize_audio_files: arguments, result
    sampling,             \* add_experimental_pairs_to_dataset: items, samples
    download              \* download_files: tasks, files, state file

planVars == << pc, rng_plan, tape, trig_cycle, ctrl_cycle, bg_cycle,
               is_trig_for_item, fg_indices_for_item, bg_indices_for_item,
               seeds_for_item, cur, results, gen_items_by_split >>

inputVars == << scenario, source_data, args, save_args, disk_before, view >>

storeVars == << disk, uuids, save, premade, loaded >>

itemVars == << made, called >>

analysisVars == << dummy, splitting >>

workerVars == << workers >>

lateVars == << mixed, padded, sampling, download >>

vars == << inputVars, planVars, itemVars, storeVars, analysisVars, workerVars,
          lateVars >>

(***************************************************************************)
(* Helpers on sequences.                                                   *)
(***************************************************************************)
RECURSIVE SelectSeqBy(_, _, _)
SelectSeqBy(s, field, val) ==
    IF s = << >> THEN << >>
    ELSE IF Head(s)[field] = val
         THEN << Head(s) >> \o SelectSeqBy(Tail(s), field, val)
         ELSE SelectSeqBy(Tail(s), field, val)

RECURSIVE Flatten(_)
Flatten(ss) == IF ss = << >> THEN << >> ELSE Head(ss) \o Flatten(Tail(ss))

Range(s) == { s[i] : i \in DOMAIN s }

\* np.arange(n), as a sequence.
Arange(n) == [i \in 1..n |-> i - 1]

\* All orders of 0..n-1: what rng.shuffle can leave in an array of n.
Perms(n) == { p \in [1..n -> 1..n] : \A i, j \in 1..n : p[i] = p[j] => i = j }

(***************************************************************************)
(* prepare(): group the source items by split, keeping their order.        *)
(***************************************************************************)
Prepare(ibs, data) ==
    IF ibs # None THEN ibs
    ELSE [s \in Splits |-> SelectSeqBy(data, "split", s)]

\* get_split, lines 88-92: the three pools of the requested split.
PoolOf(ibs, split, lt) == SelectSeqBy(ibs[split], "label_type", lt)

(***************************************************************************)
(* The generator oracle.                                                   *)
(***************************************************************************)
\* np.random.default_rng(seed=random_seed): the stream is that of the seed.
DefaultRngUnseeded(seed, entropy) == entropy
DefaultRng(seed, entropy) == seed

\* The values the next draw of generator g (pos draws made) may return.
Draw(g, R) ==
    IF g.pos < Len(tape[g.gen]) THEN { tape[g.gen][g.pos + 1] } ELSE R

Recorded(g, v) ==
    IF g.pos < Len(tape[g.gen]) THEN tape
    ELSE [tape EXCEPT ![g.gen] = Append(@, v)]

Advance(g) == [g EXCEPT !.pos = @ + 1]

(***************************************************************************)
(* make_idx_cycle(n): a generator object.  order is the array, at the      *)
(* number of entries of the current pass of the for loop already yielded;  *)
(* a new generator has yielded nothing and shuffles at its first next().   *)
(***************************************************************************)
make_idx_cycle(n) == [n |-> n, order |-> Arange(n), at |-> n]

\* rng_plan.shuffle(order) with the drawn permutation p.
ShuffledWithReplacement(order, p) == [i \in DOMAIN order |-> order[p[1]]]
Shuffled(order, p) == [i \in DOMAIN order |-> order[p[i]]]

\* The cycle after next() with shuffle draw p (used only when a pass ended).
CycleNextReshuffling(c, p) ==
    IF c.at = c.n THEN [c EXCEPT !.order = Shuffled(c.order, p), !.at = 1]
    ELSE [c EXCEPT !.order = [i \in DOMAIN @ |-> @[c.n + 1 - i]], !.at = @ + 1]
CycleNext(c, p) ==
    IF c.at = c.n THEN [c EXCEPT !.order = Shuffled(c.order, p), !.at = 1]
    ELSE [c EXCEPT !.at = @ + 1]

\* The index that next() yields, given the cycle after the call.
YieldedOneBased(c) == c.order[c.at] + 1
Yielded(c) == c.order[c.at]

(***************************************************************************)
(* The configuration checks of _make_sampling_plan, lines 117-120.         *)
(***************************************************************************)
ConfigErrorTrigOnly(tc, cc, ratio) == tc = None /\ ratio > 0
ConfigErrorNever(tc, cc, ratio) == FALSE
ConfigError(tc, cc, ratio) ==
    \/ tc = None /\ ratio > 0
    \/ cc = None /\ ratio < 100

EmptyCur == [num_fg |-> 0, num_bg |-> 0, is_trig |-> FALSE,
             fg_indices |-> << >>, bg_indices |-> << >>]

TypeOK ==
    /\ pc \in {"idle", "seeds", "counts", "fg", "bg", "spin"}
    /\ Len(results) <= MaxRuns

(***************************************************************************)
(* get_split, lines 87-120: prepare, pools, generator, cycles, checks.     *)
(***************************************************************************)
GetSplit ==
    /\ pc = "idle"
    /\ Len(results) < RunsOf(scenario)
    /\ \E entropy \in Entropy :
        LET ibs == Prepare(gen_items_by_split, source_data)
            nt == Len(PoolOf(ibs, args.split, "trigger"))
            nc == Len(PoolOf(ibs, args.split, "control"))
            nb == Len(PoolOf(ibs, args.split, "background"))
            tc == IF nt > 0 THEN make_idx_cycle(nt) ELSE None
            cc == IF nc > 0 THEN make_idx_cycle(nc) ELSE None
        IN  /\ gen_items_by_split' = ibs
            /\ rng_plan' = [gen |-> DefaultRng(args.random_seed, entropy),
                            pos |-> 0]
            /\ trig_cycle' = tc
            /\ ctrl_cycle' = cc
            /\ bg_cycle' = make_idx_cycle(nb)
            /\ is_trig_for_item' = << >>
            /\ fg_indices_for_item' = << >>
            /\ bg_indices_for_item' = << >>
            /\ seeds_for_item' = << >>
            /\ cur' = EmptyCur
            /\ IF ConfigError(tc, cc, args.trig_to_control_ratio)
               THEN /\ pc' = "idle"
                    /\ results' = Append(results, [status |-> "ValueError"])
               ELSE /\ pc' = "seeds"
                    /\ results' = results
    /\ UNCHANGED << inputVars, lateVars, analysisVars, workerVars, itemVars, storeVars, tape >>

\* Line 125: seeds_for_item = rng_plan.integers(0, 2**32 - 1, size=num_samples)
DrawSeeds ==
    /\ pc = "seeds"
    /\ \E v \in Draw(rng_plan, [1..args.num_samples -> ItemSeeds]) :
        /\ seeds_for_item' = v
        /\ tape' = Recorded(rng_plan, v)
        /\ rng_plan' = Advance(rng_plan)
    /\ pc' = "counts"
    /\ UNCHANGED << inputVars, lateVars, analysisVars, workerVars, itemVars, storeVars, gen_items_by_split, trig_cycle,
                    ctrl_cycle, bg_cycle, is_trig_for_item,
                    fg_indices_for_item, bg_indices_for_item, cur, results >>

\* Lines 128-133: the counts and the trigger decision of the next item.
DrawCounts ==
    /\ pc = "counts"
    /\ \E v \in Draw(rng_plan,
                     (args.foregrounds_per_item[1]..args.foregrounds_per_item[2])
                     \X (args.backgrounds_per_item[1]..args.backgrounds_per_item[2])
                     \X Uniforms) :
        LET is_trig == v[3] < args.trig_to_control_ratio
        IN  /\ cur' = [num_fg |-> v[1], num_bg |-> v[2], is_trig |-> is_trig,
                       fg_indices |-> << >>, bg_indices |-> << >>]
            /\ is_trig_for_item' = Append(is_trig_for_item, is_trig)
            /\ tape' = Recorded(rng_plan, v)
            /\ rng_plan' = Advance(rng_plan)
            /\ pc' = IF v[1] = 0 THEN "bg" ELSE "fg"
    /\ UNCHANGED << inputVars, lateVars, analysisVars, workerVars, itemVars, storeVars, gen_items_by_split, trig_cycle,
                    ctrl_cycle, bg_cycle, fg_indices_for_item,
                    bg_indices_for_item, seeds_for_item, results >>

\* Line 137: one next(fg_cycle) of the list comprehension.
NextFg ==
    /\ pc = "fg"
    /\ LET c == IF cur.is_trig THEN trig_cycle ELSE ctrl_cycle
           Step(c2) ==
               /\ IF cur.is_trig
                  THEN trig_cycle' = c2 /\ ctrl_cycle' = ctrl_cycle
                  ELSE ctrl_cycle' = c2 /\ trig_cycle' = trig_cycle
               /\ cur' = [cur EXCEPT !.fg_indices = Append(@, Yielded(c2))]
               /\ pc' = IF Len(cur.fg_indices) + 1 = cur.num_fg
                        THEN "bg" ELSE "fg"
               /\ results' = results
       IN  IF c = None
           THEN \* next(None): TypeError
                /\ pc' = "idle"
                /\ results' = Append(results, [status |-> "TypeError"])
                /\ UNCHANGED << trig_cycle, ctrl_cycle, cur, tape, rng_plan >>
           ELSE IF c.at = c.n
           THEN \E p \in Draw(rng_plan, Perms(c.n)) :
                    /\ Step(CycleNext(c, p))
                    /\ tape' = Recorded(rng_plan, p)
                    /\ rng_plan' = Advance(rng_plan)
           ELSE /\ Step(CycleNext(c, << >>))
                /\ UNCHANGED << tape, rng_plan >>
    /\ UNCHANGED << inputVars, lateVars, analysisVars, workerVars, itemVars, storeVars, gen_items_by_split, bg_cycle,
                    is_trig_for_item, fg_indices_for_item,
                    bg_indices_for_item, seeds_for_item >>

\* Line 138: one next(bg_cycle) of the list comprehension.  The cycle of an
\* empty pool shuffles an empty array for ever and never yields.
NextBg ==
    /\ pc = "bg"
    /\ Len(cur.bg_indices) < cur.num_bg
    /\ IF bg_cycle.n = 0
       THEN /\ pc' = "spin"
            /\ UNCHANGED << bg_cycle, cur, tape, rng_plan >>
       ELSE IF bg_cycle.at = bg_cycle.n
       THEN \E p \in Draw(rng_plan, Perms(bg_cycle.n)) :
                LET c2 == CycleNext(bg_cycle, p)
                IN  /\ bg_cycle' = c2
                    /\ cur' = [cur EXCEPT !.bg_indices = Append(@, Yielded(c2))]
                    /\ tape' = Recorded(rng_plan, p)
                    /\ rng_plan' = Advance(rng_plan)
                    /\ pc' = pc
       ELSE LET c2 == CycleNext(bg_cycle, << >>)
            IN  /\ bg_cycle' = c2
                /\ cur' = [cur EXCEPT !.bg_indices = Append(@, Yielded(c2))]
                /\ pc' = pc
                /\ UNCHANGED << tape, rng_plan >>
    /\ UNCHANGED << inputVars, lateVars, analysisVars, workerVars, itemVars, storeVars, gen_items_by_split, trig_cycle,
                    ctrl_cycle, is_trig_for_item, fg_indices_for_item,
                    bg_indices_for_item, seeds_for_item, results >>

\* make_idx_cycle(0), lines 107-110: one more pass of "while True".
Spin ==
    /\ pc = "spin"
    /\ UNCHANGED vars

\* Lines 140-143: the item's lists are appended; after the last item the
\* plan is returned and get_split returns the split view over it.
EndItem ==
    /\ pc = "bg"
    /\ Len(cur.bg_indices) = cur.num_bg
    /\ fg_indices_for_item' = Append(fg_indices_for_item, cur.fg_indices)
    /\ bg_indices_for_item' = Append(bg_indices_for_item, cur.bg_indices)
    /\ IF Len(is_trig_for_item) = args.num_samples
       THEN /\ pc' = "idle"
            /\ results' = Append(results,
                   [status |-> "ok",
                    is_trig_for_item |-> is_trig_for_item,
                    fg_indices_for_item |-> fg_indices_for_item',
                    bg_indices_for_item |-> bg_indices_for_item',
                    seeds_for_item |-> seeds_for_item])
       ELSE /\ pc' = "counts"
            /\ results' = results
    /\ UNCHANGED << inputVars, lateVars, analysisVars, workerVars, itemVars, storeVars, gen_items_by_split, trig_cycle,
                    ctrl_cycle, bg_cycle, is_trig_for_item, seeds_for_item,
                    cur, tape, rng_plan >>

(***************************************************************************)
(* The data model of interface.py.                                         *)
(***************************************************************************)
\* GlobalMixingParams(_rng=rng): subject_id and reverb_type are drawn, the
\* other fields keep their defaults.  w is the generator's word.
Subjects == << "D1", "H3" >>
ReverbTypes == << "1", "4" >>
GlobalMixingParams(w) ==
    [subject_id |-> Subjects[w + 1], reverb_type |-> ReverbTypes[w + 1],
     sample_rate |-> "44100", mode |-> "nearest", ir_type |-> "BRIR"]

\* SourceTrack(source_item=..., start=..., end=..., **options, _rng=rng):
\* the four render parameters are drawn unless the options give them.
\* Levels are in hundredths.
SourceTrack(item, start, end, options, w) ==
    [source_item |-> item, start |-> start, end |-> end,
     azimuth |-> w, elevation |-> 1 - w,
     level |-> IF options = None THEN 40 + 60 * w ELSE options.level,
     reverb |-> w]

\* An in-memory waveform of n samples per channel, and the absent value.
Waveform(n) == [kind |-> "array", samples |-> n]

\* MisophoniaItem._auto_compute_categories (a "before" validator).
LabelsOf(tracks) ==
    UNION { Range(tracks[i].source_item.labels) : i \in DOMAIN tracks }

auto_compute_categories(values) ==
    [values EXCEPT
       !.foreground_categories =
            IF @ = None THEN [set |-> LabelsOf(values.foregrounds)] ELSE @,
       !.background_categories =
            IF @ = None THEN [set |-> LabelsOf(values.backgrounds)] ELSE @]

\* MisophoniaItem._check_splits: TRUE when the validator raises.
check_splits_NoCheck(it) == FALSE
check_splits(it) ==
    \E t \in Range(it.foregrounds) \cup Range(it.backgrounds) :
        t.source_item.split # it.split

\* MisophoniaItem._check_ground_truth: TRUE when the validator raises.
check_ground_truth_NoCheck(it) == FALSE
check_ground_truth(it) ==
    \/ it.is_trigger /\ it.ground_truth = None
    \/ ~it.is_trigger /\ it.ground_truth # None

\* MisophoniaItem(**values): the validators run in the order in which the
\* class defines them; the outcome is the item or the validation error.
MisophoniaItem(values) ==
    LET it == auto_compute_categories(values)
    IN  IF check_splits(it)
        THEN [ok |-> FALSE, error |-> "splits"]
        ELSE IF check_ground_truth(it)
        THEN [ok |-> FALSE, error |-> "ground_truth"]
        ELSE [ok |-> TRUE, item |-> it]

\* The keyword arguments of a construction, with the defaults of the class.
ItemValues(split, is_trigger, mix, gt, length, gp, fgs, bgs) ==
    [split |-> split, uuid |-> None, is_trigger |-> is_trigger,
     foreground_categories |-> None, background_categories |-> None,
     mix |-> mix, ground_truth |-> gt, length |-> length,
     foregrounds |-> fgs, backgrounds |-> bgs,
     global_mixing_params |-> gp, paired_uuid |-> None]

(***************************************************************************)
(* Track preparation and mixing (mixing.prepare_track_specs and the        *)
(* binaural_mix that _generate_one calls).                                 *)
(***************************************************************************)
SeqMax(ns) == IF ns = << >> THEN 0
              ELSE CHOOSE m \in Range(ns) : \A x \in Range(ns) : x <= m

\* One (track, padded audio) pair per item: the track is placed at a drawn
\* start inside the window of max_length samples and zero-padded to it.
PrepareTrackSpecs(items, max_length, options, ws) ==
    [k \in DOMAIN items |->
        LET n == items[k].samples
            start == IF n = max_length THEN 0
                     ELSE ws[k] % (max_length - n + 1)
        IN  [track |-> SourceTrack(items[k], start, start + n, options, ws[k]),
             audio |-> Waveform(max_length)]]

\* binaural_mix: the full render, and for a trigger item the render of the
\* foregrounds alone, of the same shape.
BinauralMix(fg_specs, bg_specs, is_trig) ==
    LET n == SeqMax([k \in DOMAIN (fg_specs \o bg_specs) |->
                        (fg_specs \o bg_specs)[k].audio.samples])
    IN  [mix |-> Waveform(n),
         ground_truth |-> IF is_trig THEN Waveform(n) ELSE None]

(***************************************************************************)
(* _generate_one(index), lines 147-190, on the view that the k-th call of  *)
(* get_split returned.                                                     *)
(***************************************************************************)
\* The words of the fresh generator default_rng(seed) for n draws.
DrawWordsUnseeded(seed, n) == [1..n -> RawWords]
DrawWords(seed, n) ==
    { w \in [1..n -> RawWords] :
        \A i \in 1..n : i <= Len(tape[seed]) => w[i] = tape[seed][i] }

\* Lines 151-158: the source items of the plan entry at index.
PlannedItems(plan, index, ibs, split) ==
    LET is_trig == plan.is_trig_for_item[index + 1]
        fg_idxs == plan.fg_indices_for_item[index + 1]
        bg_idxs == plan.bg_indices_for_item[index + 1]
        all_trig_items == PoolOf(ibs, split, "trigger")
        all_ctrl_items == PoolOf(ibs, split, "control")
        all_bg_items == PoolOf(ibs, split, "background")
        fg_pool == IF is_trig THEN all_trig_items ELSE all_ctrl_items
    IN  [seed |-> plan.seeds_for_item[index + 1],
         is_trig |-> is_trig,
         foreground_items |-> [j \in DOMAIN fg_idxs |-> fg_pool[fg_idxs[j] + 1]],
         background_items |-> [j \in DOMAIN bg_idxs |-> all_bg_items[bg_idxs[j] + 1]]]

\* Lines 160-190: the mixing of the chosen items with the stream w[1] of
\* the item's generator, up to the keyword arguments of MisophoniaItem(...).
MixedValues(split, p, w) ==
    LET nf == Len(p.foreground_items)
        nb == Len(p.background_items)
        all == p.foreground_items \o p.background_items
        max_length == SeqMax([j \in DOMAIN all |-> all[j].samples])
        global_params == GlobalMixingParams(StreamWord(w[1], 0))
        foreground_specs ==
            PrepareTrackSpecs(p.foreground_items, max_length, None,
                              [j \in 1..nf |-> StreamWord(w[1], j)])
        background_specs ==
            PrepareTrackSpecs(p.background_items, max_length, [level |-> 70],
                              [j \in 1..nb |-> StreamWord(w[1], nf + j)])
        r == BinauralMix(foreground_specs, background_specs, p.is_trig)
    IN  ItemValues(split, p.is_trig, r.mix, r.ground_truth, r.mix.samples,
                   global_params,
                   [j \in 1..nf |-> foreground_specs[j].track],
                   [j \in 1..nb |-> background_specs[j].track])

GenerateOne(k, index) ==
    /\ pc = "idle"
    /\ k \in DOMAIN results
    /\ results[k].status = "ok"
    /\ index \in 0..(args.num_samples - 1)
    /\ \E p \in { PlannedItems(results[k], index, gen_items_by_split, args.split) } :
       \E w \in DrawWords(p.seed, 1) :
       \E vals \in { MixedValues(args.split, p, w) } :
       \E r \in { MisophoniaItem(vals) } :
          /\ made' = [via |-> "generate", view |-> k, index |-> index,
                      values |-> vals, result |-> r]
          /\ tape' = [tape EXCEPT ![p.seed] = IF Len(@) >= Len(w) THEN @ ELSE w]
    /\ UNCHANGED << inputVars, lateVars, analysisVars, workerVars, storeVars, called, pc, rng_plan, trig_cycle, ctrl_cycle, bg_cycle,
                    is_trig_for_item, fg_indices_for_item,
                    bg_indices_for_item, seeds_for_item, cur, results,
                    gen_items_by_split >>

Generate == \E k \in 1..MaxRuns, index \in 0..(MaxSamples - 1) : GenerateOne(k, index)

(***************************************************************************)
(* A client constructs a MisophoniaItem from values of its own.            *)
(***************************************************************************)
ClientTracks ==
    { << >> } \cup
    { << SourceTrack(SourceDataItem(s, lt, "x", 1), 0, 1, None, 0) >> :
        s \in Splits, lt \in {"trigger"} }

ClientValues ==
    { ItemValues(s, trig, Waveform(n), gt, len, GlobalMixingParams(0), fgs, bgs) :
        s \in {"train", "test"}, trig \in BOOLEAN, n \in 1..2,
        gt \in {None, Waveform(1)}, len \in 1..2,
        fgs \in ClientTracks \ { << >> }, bgs \in ClientTracks }

Construct ==
    /\ scenario = "construct"
    /\ \E vals \in ClientValues :
       \E r \in { MisophoniaItem(vals) } :
         made' = [via |-> "construct", values |-> vals, result |-> r]
    /\ UNCHANGED << inputVars, lateVars, analysisVars, workerVars, planVars, storeVars, called >>

(***************************************************************************)
(* Persistence: the layout of a split directory, and the conversions       *)
(* between an item and its metadata line.                                  *)
(***************************************************************************)
\* str(uuid.uuid4()): the n-th value issued; values are never repeated.
Uuid(n) == [id |-> n]

\* mix_file.relative_to(split_dir): a path relative to the split directory.
RelPath(dir, u) == [relative_to |-> "split_dir", dir |-> dir, stem |-> u]

\* split_dir / obj["mix"]: the path resolved against the split directory.
AbsPath(split, rel) == [split_dir |-> split, dir |-> rel.dir, stem |-> rel.stem]

\* Lines 328-335: item.model_copy(update=...).model_dump_json(): the
\* metadata line of an item saved under uuid u.
ToLineNoUuid(item, u) ==
    [item EXCEPT !.mix = RelPath("mixes", u),
                 !.ground_truth = IF item.ground_truth # None
                                  THEN RelPath("ground_truths", u) ELSE None]
ToLine(item, u) ==
    [item EXCEPT !.uuid = u, !.mix = RelPath("mixes", u),
                 !.ground_truth = IF item.ground_truth # None
                                  THEN RelPath("ground_truths", u) ELSE None]

\* Lines 232-236: _handle_line, the object handed to the validation.
HandleLine(split, obj) ==
    [obj EXCEPT !.mix = AbsPath(split, @),
                !.ground_truth = IF @ # None THEN AbsPath(split, @) ELSE None]

\* A split directory: absent, or holding audio files and maybe metadata.
AbsentDir == [exists |-> FALSE, mixes |-> {}, ground_truths |-> {},
              has_metadata |-> FALSE, lines |-> << >>]

\* shutil.rmtree followed by the two mkdir(parents=True, exist_ok=True).
FreshDir == [AbsentDir EXCEPT !.exists = TRUE]

\* The directory that holds exactly the given metadata lines and their audio.
DirOfLines(lines) ==
    [exists |-> TRUE,
     mixes |-> { lines[i].mix.stem : i \in DOMAIN lines },
     ground_truths |-> { lines[i].ground_truth.stem :
                            i \in { j \in DOMAIN lines : lines[j].ground_truth # None } },
     has_metadata |-> TRUE, lines |-> lines]

\* Whether the file a resolved path names exists on the disk d.
FileExists(d, path) ==
    /\ d[path.split_dir].exists
    /\ path.stem \in (IF path.dir = "mixes" THEN d[path.split_dir].mixes
                      ELSE d[path.split_dir].ground_truths)

(***************************************************************************)
(* The items of the views that are saved: valid MisophoniaItem objects     *)
(* held in memory, and the marker of an index whose get_one raises.        *)
(***************************************************************************)
TrackOf(split, lt, nm, start, w) ==
    SourceTrack(SourceDataItem(split, lt, nm, 1), start, start + 1, None, w)

TriggerItem(split) ==
    MisophoniaItem(ItemValues(split, TRUE, Waveform(2), Waveform(2), 2,
        GlobalMixingParams(0),
        << TrackOf(split, "trigger", "t1", 1, 1) >>,
        << TrackOf(split, "background", "b1", 0, 0) >>)).item

ControlItem(split) ==
    [ MisophoniaItem(ItemValues(split, FALSE, Waveform(1), None, 1,
        GlobalMixingParams(1),
        << TrackOf(split, "control", "c1", 0, 0) >>,
        << TrackOf(split, "background", "b1", 0, 1) >>)).item
      EXCEPT !.paired_uuid = Uuid(101) ]

Raises == [raises |-> "RuntimeError"]

ViewEntries(split) == { TriggerItem(split), ControlItem(split), Raises }

\* MisophoniaDatasetSplit(split=..., num_samples=..., get_one=...): get_one
\* is given by the outcome of each index.
SplitViews(split) ==
    UNION { [1..n -> ViewEntries(split)] : n \in 0..MaxItems }

\* A metadata line that violates the ground-truth/trigger invariant (the
\* file was not written by save_split).
BadLine(split, u) == [ToLine(TriggerItem(split), u) EXCEPT !.ground_truth = None]

\* The dataset directories a behaviour may start from: "train" is absent,
\* empty, or holds the lines of earlier items; "val" holds one control item.
InitialTrainDirs ==
    { AbsentDir, FreshDir,
      DirOfLines(<< ToLine(TriggerItem("train"), Uuid(101)) >>),
      DirOfLines(<< ToLine(ControlItem("train"), Uuid(102)),
                    ToLine(TriggerItem("train"), Uuid(101)) >>),
      DirOfLines(<< BadLine("train", Uuid(101)) >>) }

InitialDisks ==
    { [s \in Splits |->
          IF s = "train" THEN d
          ELSE IF s = "val"
          THEN DirOfLines(<< ToLine(ControlItem("val"), Uuid(201)) >>)
          ELSE AbsentDir] : d \in InitialTrainDirs }

DisksOf(sc) ==
    IF sc = "save" THEN InitialDisks ELSE { [s \in Splits |-> AbsentDir] }

IfExists == {"error", "replace", "append"}

SaveArgsOf(sc) ==
    IF sc = "save"
    THEN [split : {"train"}, items : SplitViews("train"),
          if_exists : IfExists, n_workers : 1..MaxWorkers]
    ELSE [split : {"train"}, items : { << >> },
          if_exists : {"error"}, n_workers : {1}]

NoSave == [status |-> "none", futures |-> << >>, next |-> 0, events |-> << >>]

(***************************************************************************)
(* PremadeMisophoniaDataset.save_split.                                    *)
(***************************************************************************)
Size == Len(save_args.items)

Queued == [st |-> "queued"]

\* Lines 293-300: what the conflict policy leaves of an existing directory;
\* TRUE in raises when FileExistsError is raised.
ConflictPolicyReplaceAlways(d, if_exists) ==
    [raises |-> d.exists /\ if_exists = "error", dir |-> FreshDir]
ConflictPolicyNeverRaises(d, if_exists) ==
    [raises |-> FALSE,
     dir |-> IF d.exists /\ if_exists = "replace" THEN FreshDir
             ELSE [d EXCEPT !.exists = TRUE]]
ConflictPolicy(d, if_exists) ==
    [raises |-> d.exists /\ if_exists = "error",
     dir |-> IF d.exists /\ if_exists = "replace" THEN FreshDir
             ELSE [d EXCEPT !.exists = TRUE]]

\* Lines 286-303 and 337-342: the policy, the directories, the metadata file
\* opened for appending, and one future submitted per index.
SaveSplit ==
    /\ scenario = "save"
    /\ save.status = "none"
    /\ LET r == ConflictPolicy(disk[save_args.split], save_args.if_exists)
       IN  IF r.raises
           THEN /\ save' = [save EXCEPT !.status = "FileExistsError"]
                /\ disk' = disk
           ELSE /\ disk' = [disk EXCEPT ![save_args.split] =
                               [r.dir EXCEPT !.has_metadata = TRUE]]
                /\ save' = [status |-> "running",
                            futures |-> [i \in 1..Size |-> Queued],
                            next |-> 0, events |-> << >>]
    /\ UNCHANGED << inputVars, lateVars, analysisVars, workerVars, planVars, itemVars, uuids, premade, loaded >>

\* The futures that occupy a worker thread: "generating" while
\* split_data[i] is evaluated, "running" from then until the row is returned.
NumRunning ==
    Cardinality({ i \in DOMAIN save.futures :
                    save.futures[i].st \in {"generating", "running"} })

\* A free worker thread takes the oldest queued future and calls
\* _generate_and_save(i).
WorkerStart(i) ==
    /\ save.status \in {"running", "raising"}
    /\ i \in DOMAIN save.futures
    /\ save.futures[i].st = "queued"
    /\ \A j \in 1..(i - 1) : save.futures[j].st # "queued"
    /\ NumRunning < save_args.n_workers
    /\ save' = [save EXCEPT !.futures[i] = [st |-> "generating"]]
    /\ UNCHANGED << inputVars, lateVars, analysisVars, workerVars, planVars, itemVars, disk, uuids, premade, loaded >>

\* Line 306: split_data[i] returns the item, or get_one raises and the
\* future fails.  events records the order in which futures end.
WorkerGenerate(i) ==
    /\ save.status \in {"running", "raising"}
    /\ i \in DOMAIN save.futures
    /\ save.futures[i].st = "generating"
    /\ save' = IF save_args.items[i] = Raises
               THEN [save EXCEPT
                       !.futures[i] = [st |-> "failed"],
                       !.events = Append(@, [index |-> i, outcome |-> "failed"])]
               ELSE [save EXCEPT
                       !.futures[i] = [st |-> "running", item |-> save_args.items[i]]]
    /\ UNCHANGED << inputVars, lateVars, analysisVars, workerVars, planVars, itemVars, disk, uuids, premade, loaded >>

\* Lines 318-320: the ground-truth file is written when the item has one.
WritesGroundTruthAlways(item) == TRUE
WritesGroundTruthNever(item) == FALSE
WritesGroundTruth(item) == item.ground_truth # None

\* Lines 308-335: the uuid, the audio files, and the row that is returned.
WorkerSave(i) ==
    /\ save.status \in {"running", "raising"}
    /\ i \in DOMAIN save.futures
    /\ save.futures[i].st = "running"
    /\ LET item == save.futures[i].item
           mix_id == Uuid(uuids + 1)
           row == ToLine(item, mix_id)
       IN  /\ uuids' = uuids + 1
           /\ disk' = [disk EXCEPT ![save_args.split] =
                  [@ EXCEPT !.mixes = @ \cup {mix_id},
                            !.ground_truths =
                                IF WritesGroundTruth(item)
                                THEN @ \cup {mix_id} ELSE @]]
           /\ save' = [save EXCEPT
                         !.futures[i] = [st |-> "done", row |-> row],
                         !.events = Append(@, [index |-> i, outcome |-> "done"])]
    /\ UNCHANGED << inputVars, lateVars, analysisVars, workerVars, planVars, itemVars, premade, loaded >>

\* executor.map: the future whose result the iterator yields after next
\* results, given the order in which the futures ended.
ResultIndexAsCompleted(events, next) ==
    IF next < Len(events) THEN events[next + 1].index ELSE next + 1
ResultIndexFromLast(events, next) == Size - next
ResultIndex(events, next) == next + 1

\* Lines 345-346: the main thread takes the results in the order of
\* submission and writes each row as one line.
WriteRow ==
    /\ save.status = "running"
    /\ save.next < Size
    /\ save.futures[ResultIndex(save.events, save.next)].st = "done"
    /\ disk' = [disk EXCEPT ![save_args.split].lines =
                   Append(@, save.futures[ResultIndex(save.events, save.next)].row)]
    /\ save' = [save EXCEPT !.next = @ + 1]
    /\ UNCHANGED << inputVars, lateVars, analysisVars, workerVars, planVars, itemVars, uuids, premade, loaded >>

\* The result of a failed future is re-raised in the main thread; the
\* iterator of executor.map cancels the futures that have not started.
Reraise ==
    /\ save.status = "running"
    /\ save.next < Size
    /\ save.futures[ResultIndex(save.events, save.next)].st = "failed"
    /\ save' = [save EXCEPT
                  !.status = "raising",
                  !.futures = [i \in DOMAIN @ |->
                                 IF @[i].st = "queued"
                                 THEN [st |-> "cancelled"] ELSE @[i]]]
    /\ UNCHANGED << inputVars, lateVars, analysisVars, workerVars, planVars, itemVars, disk, uuids, premade, loaded >>

\* The executor is shut down (running futures are waited for), the
\* metadata file is closed and save_split returns or raises.
SaveEnd ==
    /\ \/ save.status = "running" /\ save.next = Size
       \/ save.status = "raising"
    /\ NumRunning = 0
    /\ save' = [save EXCEPT !.status =
                   IF save.status = "running" THEN "returned" ELSE "raised"]
    /\ UNCHANGED << inputVars, lateVars, analysisVars, workerVars, planVars, itemVars, disk, uuids, premade, loaded >>

(***************************************************************************)
(* PremadeMisophoniaDataset.prepare and get_split.                         *)
(***************************************************************************)
SplitOrder == << "train", "val", "test" >>

\* Lines 225-241 for one split: None without a metadata file, else the list
\* of the validated items; ok is FALSE when the validation of a line raises.
LoadSplit(d, split) ==
    IF ~(d[split].exists /\ d[split].has_metadata)
    THEN [ok |-> TRUE, value |-> None]
    ELSE LET rs == [i \in DOMAIN d[split].lines |->
                       MisophoniaItem(HandleLine(split, d[split].lines[i]))]
         IN  IF \E i \in DOMAIN rs : ~rs[i].ok
             THEN [ok |-> FALSE]
             ELSE [ok |-> TRUE,
                   value |-> [list |-> [i \in DOMAIN rs |-> rs[i].item]]]

\* prepare(): the early return, the dictionary of empty lists, and the
\* splits in order up to the first one whose validation raises.
PreparePremade(ibs, d) ==
    IF ibs # None THEN [ok |-> TRUE, items_by_split |-> ibs]
    ELSE LET r == [k \in 1..3 |-> LoadSplit(d, SplitOrder[k])]
             bad == { k \in 1..3 : ~r[k].ok }
             first == IF bad = {} THEN 4
                      ELSE CHOOSE k \in bad : \A j \in bad : k <= j
         IN  [ok |-> bad = {},
              items_by_split |->
                 [s \in Splits |->
                    LET k == CHOOSE j \in 1..3 : SplitOrder[j] = s
                    IN  IF k < first THEN r[k].value ELSE [list |-> << >>]]]

ClientIdle == scenario = "save" /\ save.status \notin {"running", "raising"}

\* No prepare() or get_split() was called on the current object.
NotLoaded == [op |-> "none", read_at |-> "none", status |-> "none"]

\* The state of the save_split call when the object read the directory:
\* the object reads it in its first prepare() and never again.
ReadAt == IF premade = None THEN save.status ELSE loaded.read_at

\* PremadeMisophoniaDataset(name): a new object over the same directory.
NewPremade ==
    /\ ClientIdle
    /\ premade # None
    /\ premade' = None
    /\ loaded' = NotLoaded
    /\ UNCHANGED << inputVars, lateVars, analysisVars, workerVars, planVars, itemVars, disk, uuids, save >>

PremadePrepare ==
    /\ ClientIdle
    /\ \E r \in { PreparePremade(premade, disk) } :
         /\ premade' = r.items_by_split
         /\ loaded' = [op |-> "prepare", read_at |-> ReadAt,
                       status |-> IF r.ok THEN "returned" ELSE "ValidationError"]
    /\ UNCHANGED << inputVars, lateVars, analysisVars, workerVars, planVars, itemVars, disk, uuids, save >>

\* Lines 256-257: "ValueError" when there is no data for the split, else
\* the view is returned.
SplitOutcomeNoneOnly(items) == IF items = None THEN "ValueError" ELSE "view"
SplitOutcome(items) ==
    IF items = None \/ Len(items.list) = 0 THEN "ValueError" ELSE "view"

\* get_split(split), lines 253-263.
PremadeGetSplit(split) ==
    /\ ClientIdle
    /\ \E r \in { PreparePremade(premade, disk) } :
         /\ premade' = r.items_by_split
         /\ loaded' =
              IF ~r.ok
              THEN [op |-> "get_split", read_at |-> ReadAt, split |-> split,
                    status |-> "ValidationError"]
              ELSE LET items == r.items_by_split[split]
                   IN  IF SplitOutcome(items) = "ValueError"
                       THEN [op |-> "get_split", read_at |-> ReadAt,
                             split |-> split, status |-> "ValueError"]
                       ELSE [op |-> "get_split", read_at |-> ReadAt,
                             split |-> split, status |-> "view",
                             num_samples |-> Len(items.list),
                             items |-> items.list]
    /\ UNCHANGED << inputVars, lateVars, analysisVars, workerVars, planVars, itemVars, disk, uuids, save >>

NextSave ==
    \/ SaveSplit
    \/ \E i \in 1..MaxItems : WorkerStart(i)
    \/ \E i \in 1..MaxItems : WorkerGenerate(i)
    \/ \E i \in 1..MaxItems : WorkerSave(i)
    \/ WriteRow
    \/ Reraise
    \/ SaveEnd
    \/ NewPremade
    \/ PremadePrepare
    \/ \E split \in Splits : PremadeGetSplit(split)

(***************************************************************************)
(* add_experimental_pairs_to_dataset: _get_paired_control_item on one      *)
(* (trigger, control) pair of the sampling plan.                           *)
(***************************************************************************)
\* Persisted single-foreground trigger items of the "test" split.
TestTriggers ==
    { HandleLine("test",
        ToLine(MisophoniaItem(ItemValues("test", TRUE, Waveform(2), Waveform(2), 2,
                   GlobalMixingParams(g),
                   << SourceTrack(SourceDataItem("test", "trigger", "t2", 1),
                                  start, start + 1, None, w) >>,
                   bgs)).item,
               Uuid(301))) :
        g \in RawWords, w \in RawWords, start \in 0..1,
        bgs \in { << TrackOf("test", "background", "b2", 0, 0) >>,
                  << TrackOf("test", "background", "b2", 0, 1),
                     TrackOf("test", "background", "b4", 1, 0) >> } }

\* Control items of the "test" split as get_split returns them; the last
\* one stands for an item whose metadata line carries no uuid.
TestControls ==
    { [HandleLine("test",
         ToLine(MisophoniaItem(ItemValues("test", FALSE, Waveform(n), None, n,
                    GlobalMixingParams(0),
                    << SourceTrack(SourceDataItem("test", "control", nm, n),
                                   0, n, None, 0) >>,
                    << TrackOf("test", "background", "b2", 0, 0) >>)).item,
                Uuid(302)))
       EXCEPT !.uuid = u] :
        n \in 1..3, nm \in {"c4", "c5"}, u \in {Uuid(302), None} }

\* Lines 416-461 up to the keyword arguments of MisophoniaItem(...).
PairedControlValuesOwnTrack(original_trig, original_control) ==
    LET r == BinauralMix(<< [track |-> original_control.foregrounds[1],
                             audio |-> Waveform(original_control.length)] >>,
                         << >>, FALSE)
    IN  [ItemValues("test", FALSE, r.mix, r.ground_truth, r.mix.samples,
                    original_trig.global_mixing_params,
                    << original_control.foregrounds[1] >>,
                    original_trig.backgrounds)
         EXCEPT !.paired_uuid = original_trig.uuid]
PairedControlValues(original_trig, original_control) ==
    LET global_mixing_params == original_trig.global_mixing_params
        bg_specs == [k \in DOMAIN original_trig.backgrounds |->
                        [track |-> original_trig.backgrounds[k],
                         audio |-> Waveform(original_trig.backgrounds[k]
                                                .source_item.samples)]]
        control_item == original_control.foregrounds[1].source_item
        control_audio == Waveform(control_item.samples)
        fg_track == [original_trig.foregrounds[1] EXCEPT
                        !.source_item = control_item,
                        !.start = original_trig.foregrounds[1].start,
                        !.end = original_trig.foregrounds[1].start
                                    + control_audio.samples]
        r == BinauralMix(<< [track |-> fg_track, audio |-> control_audio] >>,
                         bg_specs, FALSE)
    IN  [ItemValues("test", FALSE, r.mix, r.ground_truth, r.mix.samples,
                    global_mixing_params, << fg_track >>,
                    [k \in DOMAIN bg_specs |-> bg_specs[k].track])
         EXCEPT !.paired_uuid = original_trig.uuid]

\* _get_paired_control_item(index) for samples[index] = (trig, control).
GetPairedControlItem ==
    /\ scenario = "pair"
    /\ \E original_trig \in TestTriggers, original_control \in TestControls :
         IF original_control.uuid = None
         THEN made' = [via |-> "pair", trig |-> original_trig,
                       control |-> original_control,
                       result |-> [ok |-> FALSE, error |-> "AssertionError"]]
         ELSE \E vals \in { PairedControlValues(original_trig, original_control) } :
                made' = [via |-> "pair", trig |-> original_trig,
                         control |-> original_control, values |-> vals,
                         result |-> MisophoniaItem(vals)]
    /\ UNCHANGED << inputVars, lateVars, analysisVars, workerVars, planVars, storeVars, called >>

(***************************************************************************)
(* MisophoniaDatasetSplit: __getitem__ and __iter__ over a get_one          *)
(* function.  get_one is any function of the index it is called with: its  *)
(* result is modelled by the term get_one(i), and the calls are recorded.  *)
(***************************************************************************)
ViewsOf(sc) ==
    IF sc = "index" THEN [num_samples : 0..MaxItems] ELSE [num_samples : {0}]

\* The integers tried as indices, and as entries of index lists.
Indices == (0 - MaxItems - 1)..(MaxItems + 1)

\* A slice field is absent (None) or an integer: the set of its values.
SliceFields == { {} } \cup { {i} : i \in Indices }

Slices == { s \in [start : SliceFields, stop : SliceFields, step : SliceFields] :
              s.step # {0} }

IndexLists == UNION { [1..k -> Indices] : k \in 0..2 }

GetOne(i) == [get_one |-> i]

Min(a, b) == IF a < b THEN a ELSE b

Max(a, b) == IF a > b THEN a ELSE b

\* slice.indices(n): the (start, stop, step) of the slice on a sequence of
\* n items; absent fields take their defaults, others are clamped.
SliceIndices(s, n) ==
    LET step == IF s.step = {} THEN 1 ELSE CHOOSE x \in s.step : TRUE
        lower == IF step < 0 THEN 0 - 1 ELSE 0
        upper == IF step < 0 THEN n - 1 ELSE n
        Clamp(f, default) ==
            IF f = {} THEN default
            ELSE LET v == CHOOSE x \in f : TRUE
                 IN  IF v < 0 THEN Max(v + n, lower) ELSE Min(v, upper)
    IN  [start |-> Clamp(s.start, IF step < 0 THEN upper ELSE lower),
         stop |-> Clamp(s.stop, IF step < 0 THEN lower ELSE upper),
         step |-> step]

\* range(start, stop, step) as a sequence.
RECURSIVE RangeSeq(_, _, _)
RangeSeq(start, stop, step) ==
    IF (step > 0 /\ start >= stop) \/ (step < 0 /\ start <= stop) THEN << >>
    ELSE << start >> \o RangeSeq(start + step, stop, step)

\* [self._get_one(i) for i in indices].
GetAll(indices) ==
    [status |-> "ok", value |-> [k \in DOMAIN indices |-> GetOne(indices[k])],
     calls |-> indices]

\* Lines 477-481: an integer index.
IntIndexNoWrap(n, idx) ==
    IF ~(0 <= idx /\ idx < n)
    THEN [status |-> "IndexError", calls |-> << >>]
    ELSE [status |-> "ok", value |-> GetOne(idx), calls |-> << idx >>]
IntIndex(n, idx) ==
    LET i == IF idx < 0 THEN idx + n ELSE idx
    IN  IF ~(0 <= i /\ i < n)
        THEN [status |-> "IndexError", calls |-> << >>]
        ELSE [status |-> "ok", value |-> GetOne(i), calls |-> << i >>]

\* The client makes one call on the view.
ViewClient == scenario = "index" /\ called.op = "none"

\* split[idx] for an integer idx.
GetItemInt ==
    /\ ViewClient
    /\ \E idx \in Indices :
         called' = [op |-> "int", arg |-> idx,
                    result |-> IntIndex(view.num_samples, idx)]
    /\ UNCHANGED << inputVars, lateVars, analysisVars, workerVars, planVars, storeVars, made >>

\* split[s] for a slice s, lines 471-476.
GetItemSlice ==
    /\ ViewClient
    /\ \E s \in Slices :
         LET r == SliceIndices(s, view.num_samples)
         IN  called' = [op |-> "slice", arg |-> s,
                        result |-> GetAll(RangeSeq(r.start, r.stop, r.step))]
    /\ UNCHANGED << inputVars, lateVars, analysisVars, workerVars, planVars, storeVars, made >>

\* split[l] for a list l of integers, lines 471-476.
GetItemList ==
    /\ ViewClient
    /\ \E l \in IndexLists :
         called' = [op |-> "list", arg |-> l, result |-> GetAll(l)]
    /\ UNCHANGED << inputVars, lateVars, analysisVars, workerVars, planVars, storeVars, made >>

\* list(iter(split)), lines 483-490: the generator run to its end.
Iterate ==
    /\ ViewClient
    /\ called' = [op |-> "iter",
                  result |-> GetAll(RangeSeq(0, view.num_samples, 1))]
    /\ UNCHANGED << inputVars, lateVars, analysisVars, workerVars, planVars, storeVars, made >>

NextView ==
    \/ GetItemInt
    \/ GetItemSlice
    \/ GetItemList
    \/ Iterate

(***************************************************************************)
(* experiment/py_analysis/dummy_data.py: create_dummy_data.  Flags are the *)
(* integers 0 and 1 as in the code.  The ratings (real numbers drawn from  *)
(* the additive model) are left out of the rows.                           *)
(***************************************************************************)
IntOf(b) == IF b THEN 1 ELSE 0

\* The arguments tried: (categories, pairs_per_category, n_subjects).
DummyArgs ==
    [categories : { << >>, << "chewing", "typing" >>, << "tapping" >> },
     pairs_per_category : 1..2,
     n_subjects : 0..MaxSubjects]

DummyCalls(sc) ==
    IF sc = "dummy"
    THEN { [pc |-> "pairs", args |-> a, categories |-> << >>, pairs |-> << >>,
            subjects |-> 0, records |-> << >>, df |-> << >>] :
             a \in { x \in DummyArgs :
                       Len(x.categories) * x.pairs_per_category <= 2 } }
    ELSE { [pc |-> "none"] }

\* Lines 85-87: the masks of one category before the shuffle.
Masks(pairs_per_category) ==
    [k \in 1..pairs_per_category |->
        IF k <= pairs_per_category \div 2 THEN "A" ELSE "B"]

\* Lines 69-104: the categories, and the pairs with shuffled masks and
\* drawn FOAMS flags; pair_uuid n stands for the n-th uuid4 issued.
DummyPairs ==
    /\ dummy.pc = "pairs"
    /\ LET categories == IF dummy.args.categories = << >> THEN << "chewing" >>
                         ELSE dummy.args.categories
           ppc == dummy.args.pairs_per_category
           n == Len(categories) * ppc
       IN  \E sh \in [1..Len(categories) -> Perms(ppc)], foams \in [1..n -> 0..1] :
             dummy' = [dummy EXCEPT
                 !.pc = "subjects",
                 !.categories = categories,
                 !.pairs = [k \in 1..n |->
                     LET c == ((k - 1) \div ppc) + 1
                         j == ((k - 1) % ppc) + 1
                     IN  [pair_uuid |-> k, category |-> categories[c],
                          pair_mask |-> Shuffled(Masks(ppc), sh[c])[j],
                          is_foams_pair |-> foams[k], is_anchor |-> 0]]]
    /\ UNCHANGED << inputVars, lateVars, planVars, itemVars, storeVars, workerVars, splitting >>

\* Lines 143-171: the row of one non-anchor trial of a subject.
TrialRowDeclaredPair(subj, pr, identify) ==
    LET is_trig == IntOf(subj.group_ab = pr.pair_mask)
        is_decl_trig_pair == IntOf(pr.category \in subj.declared)
    IN  [subject_uuid |-> subj.subject_uuid, pair_uuid |-> pr.pair_uuid,
         is_trig |-> is_trig, is_declared_trig |-> is_decl_trig_pair,
         is_declared_trig_pair |-> is_decl_trig_pair,
         is_foams |-> IntOf(is_trig = 1 /\ pr.is_foams_pair = 1),
         is_anchor |-> 0, is_reused |-> 0,
         did_identify |-> IF is_trig = 1 THEN identify ELSE 0,
         pair_category |-> pr.category]
TrialRow(subj, pr, identify) ==
    LET is_trig == IntOf(subj.group_ab = pr.pair_mask)
        is_decl_trig_pair == IntOf(pr.category \in subj.declared)
        is_decl_trig == IntOf(is_trig = 1 /\ is_decl_trig_pair = 1)
    IN  [subject_uuid |-> subj.subject_uuid, pair_uuid |-> pr.pair_uuid,
         is_trig |-> is_trig, is_declared_trig |-> is_decl_trig,
         is_declared_trig_pair |-> is_decl_trig_pair,
         is_foams |-> IntOf(is_trig = 1 /\ pr.is_foams_pair = 1),
         is_anchor |-> 0, is_reused |-> 0,
         did_identify |-> IF is_trig = 1 THEN identify ELSE 0,
         pair_category |-> pr.category]

\* Lines 184-231: an anchor row; reused is 1 for the last presentation.
AnchorRow(subj, anchor_category, reused, identify) ==
    LET first_is_trig == IF subj.group_ab = "A" THEN 0 ELSE 1
        is_trig == IF reused = 0 THEN first_is_trig ELSE 1 - first_is_trig
        anchor_decl_pair == IntOf(anchor_category \in subj.declared)
    IN  [subject_uuid |-> subj.subject_uuid, pair_uuid |-> 0,
         is_trig |-> is_trig,
         is_declared_trig |-> IntOf(is_trig = 1 /\ anchor_category \in subj.declared),
         is_declared_trig_pair |-> anchor_decl_pair,
         is_foams |-> 0, is_anchor |-> 1, is_reused |-> reused,
         did_identify |-> identify,
         pair_category |-> anchor_category]

\* Lines 116-242: one subject: the group and the declared categories are
\* drawn, the trials are built, shuffled and cut at the dropout, and the
\* rows are appended between the two anchor rows with their order.
DummySubject ==
    /\ dummy.pc = "subjects"
    /\ dummy.subjects < dummy.args.n_subjects
    /\ LET n == Len(dummy.pairs)
       IN  \E group_ab \in {"A", "B"},
              declared \in SUBSET Range(dummy.categories),
              order \in Perms(n),
              kept \in { k \in 0..n : k >= 1 \/ n = 0 },
              identify \in [0..(n + 1) -> 0..1] :
             LET subj == [subject_uuid |-> dummy.subjects + 1,
                          group_ab |-> group_ab, declared |-> declared]
                 trials == [k \in 1..n |-> TrialRow(subj, dummy.pairs[k], identify[k])]
                 shuffled == Shuffled(trials, order)
                 rows == << AnchorRow(subj, dummy.categories[1], 0, identify[0]) >>
                         \o SubSeq(shuffled, 1, kept)
                         \o << AnchorRow(subj, dummy.categories[1], 1, identify[n + 1]) >>
             IN  dummy' = [dummy EXCEPT
                     !.subjects = @ + 1,
                     !.records = @ \o [k \in DOMAIN rows |->
                                         [row |-> rows[k], order |-> k]]]
    /\ UNCHANGED << inputVars, lateVars, planVars, itemVars, storeVars, workerVars, splitting >>

\* Lines 278-296: the data frame with the version and category columns.
DummyFrame ==
    /\ dummy.pc = "subjects"
    /\ dummy.subjects = dummy.args.n_subjects
    /\ dummy' = [dummy EXCEPT
           !.pc = "done",
           !.df = [k \in DOMAIN dummy.records |->
                     [row |-> dummy.records[k].row,
                      order |-> dummy.records[k].order,
                      version |-> IF dummy.records[k].row.is_trig = 1
                                  THEN "trig" ELSE "ctrl",
                      category |-> IF dummy.records[k].row.is_trig = 1
                                   THEN dummy.records[k].row.pair_category
                                   ELSE "ctrl"]]]
    /\ UNCHANGED << inputVars, lateVars, planVars, itemVars, storeVars, workerVars, splitting >>

NextDummy ==
    \/ DummyPairs
    \/ DummySubject
    \/ DummyFrame

(***************************************************************************)
(* source_data/_splitting.py: train_valid_test_split.  The md5 digest of   *)
(* an id modulo 100 is an arbitrary fixed function of the id, drawn with   *)
(* the arguments; the buckets tried lie on both sides of every cutoff.     *)
(***************************************************************************)
FreesoundIds == 1..2
HashBuckets == {0, 11, 12, 19, 20, 29, 30, 99}
NotInFsd50k == "absent"

\* The calls tried: the two series share their index (the positions), the
\* FSD50K table maps an id to its original split, "dev" or "eval".
SplitCalls(sc) ==
    IF sc = "split"
    THEN UNION { { [pc |-> "call", target_freesound_ids |-> ids,
                    validated_by |-> v, fsd50k |-> t, md5_mod_100 |-> h,
                    target_val_pct |-> pct, splits |-> << >>] :
                     ids \in [1..n -> FreesoundIds],
                     v \in [1..n -> {None, [names |-> << "FOAMS" >>]}],
                     t \in [FreesoundIds -> {NotInFsd50k, "dev", "eval"}],
                     h \in [FreesoundIds -> HashBuckets],
                     pct \in {10, 25} } : n \in 0..MaxItems }
    ELSE { [pc |-> "none"] }

\* Lines 62-65: the ids of the rows whose validated_by is not missing.
IsValidated(c) ==
    { c.target_freesound_ids[k] :
        k \in { k \in DOMAIN c.target_freesound_ids : c.validated_by[k] # None } }

\* Lines 67-76: the cutoffs, test 20 and val on the scale after test.
TestCutoff == 20
ValCutoff(c) == (c.target_val_pct * 100) \div (c.target_val_pct + (100 - 20 - c.target_val_pct))

\* Lines 92-99: _hash_train_val_split on a value between 0 and 100.
HashTrainValSplit(c, hash_value) ==
    IF hash_value < ValCutoff(c) THEN "val" ELSE "train"

\* Lines 84-90: _hash_test_train_val_split.
HashTestTrainValSplit(c, freesound_id) ==
    LET hash_value == c.md5_mod_100[freesound_id]
    IN  IF hash_value < TestCutoff THEN "test"
        ELSE HashTrainValSplit(c, ((hash_value - TestCutoff) * 100) \div (100 - TestCutoff))

\* Lines 101-108: _get_fsd50k_split; None when the id is not in FSD50K.
GetFsd50kSplitTestForAll(c, freesound_id) ==
    IF c.fsd50k[freesound_id] = NotInFsd50k THEN "None"
    ELSE HashTestTrainValSplit(c, freesound_id)
GetFsd50kSplit(c, freesound_id) ==
    IF c.fsd50k[freesound_id] = NotInFsd50k THEN "None"
    ELSE IF c.fsd50k[freesound_id] = "eval" THEN "test"
    ELSE HashTrainValSplit(c, c.md5_mod_100[freesound_id])

\* Lines 110-127: _test_if_validated and _get_final_split.
GetFinalSplit(c, freesound_id) ==
    IF freesound_id \in IsValidated(c) THEN "test"
    ELSE IF GetFsd50kSplit(c, freesound_id) # "None"
         THEN GetFsd50kSplit(c, freesound_id)
         ELSE HashTestTrainValSplit(c, freesound_id)

\* Lines 26-130: the call: the index sets agree, the split of every id.
TrainValidTestSplit ==
    /\ splitting.pc = "call"
    /\ splitting' = [splitting EXCEPT
           !.pc = "returned",
           !.splits = [k \in DOMAIN splitting.target_freesound_ids |->
                         GetFinalSplit(splitting, splitting.target_freesound_ids[k])]]
    /\ UNCHANGED << inputVars, lateVars, planVars, itemVars, storeVars, workerVars, dummy >>

NextSplit == TrainValidTestSplit

(***************************************************************************)
(* mixing.binaural_mix, the renders and the ground truth (lines 158-183),  *)
(* called with prepared tracks.  The renderer mix_tracks_binaural is an    *)
(* external library: it returns a waveform as long as the tracks it is     *)
(* given, or, when it breaks that contract, a longer one.                  *)
(***************************************************************************)
MixTracks ==
    { [track |-> SourceTrack(SourceDataItem("train", lt, "x", 2), 0, 2, None, w),
       audio |-> Waveform(2)] : lt \in {"trigger"}, w \in RawWords }

\* The calls tried: extra[k] is the number of samples by which the k-th
\* render exceeds the length of its tracks.
MixCalls(sc) ==
    IF sc = "mix"
    THEN { [pc |-> "call", fg_specs |-> fg, bg_specs |-> bg,
            global_params |-> GlobalMixingParams(w), is_trig |-> t,
            extra |-> e, renders |-> << >>, result |-> None, item |-> None] :
             fg \in { << a >> : a \in MixTracks }
                    \cup { << a, b >> : a \in MixTracks, b \in MixTracks },
             bg \in { << >> } \cup { << a >> : a \in MixTracks },
             w \in RawWords, t \in BOOLEAN, e \in [1..2 -> 0..1] }
    ELSE { [pc |-> "none"] }

\* mix_tracks_binaural(tracks, ..., reverb_type=...): the k-th render.
MixTracksBinaural(specs, extra) ==
    Waveform(SeqMax([j \in DOMAIN specs |-> specs[j].audio.samples]) + extra)

\* Lines 158-183: the outcome of binaural_mix and the renders it made.
BinauralMixRendersAlways(c) ==
    [status |-> "returned",
     renders |-> << [tracks |-> c.fg_specs \o c.bg_specs, params |-> c.global_params],
                    [tracks |-> c.fg_specs, params |-> c.global_params] >>,
     mix |-> MixTracksBinaural(c.fg_specs \o c.bg_specs, c.extra[1]),
     ground_truth |-> MixTracksBinaural(c.fg_specs, c.extra[2])]
BinauralMixRenders(c) ==
    LET first == [tracks |-> c.fg_specs \o c.bg_specs, params |-> c.global_params]
        mix == MixTracksBinaural(c.fg_specs \o c.bg_specs, c.extra[1])
    IN  IF c.is_trig
        THEN LET second == [tracks |-> c.fg_specs, params |-> c.global_params]
                 ground_truth == MixTracksBinaural(c.fg_specs, c.extra[2])
             IN  IF ground_truth.samples = mix.samples
                 THEN [status |-> "returned", renders |-> << first, second >>,
                       mix |-> mix, ground_truth |-> ground_truth]
                 ELSE [status |-> "AssertionError", renders |-> << first, second >>,
                       mix |-> mix, ground_truth |-> ground_truth]
        ELSE [status |-> "returned", renders |-> << first >>,
              mix |-> mix, ground_truth |-> None]

BinauralMixCall ==
    /\ mixed.pc = "call"
    /\ \E r \in { BinauralMixRenders(mixed) } :
          mixed' = [mixed EXCEPT !.pc = r.status, !.renders = r.renders,
                                 !.result = r]
    /\ UNCHANGED << inputVars, planVars, itemVars, storeVars, analysisVars,
                    workerVars, padded, sampling, download >>

\* _generate_one, lines 181-190: the item built from the result with the
\* same is_trig.
BuildFromMix ==
    /\ mixed.pc = "returned"
    /\ \E vals \in { ItemValues("train", mixed.is_trig, mixed.result.mix,
                                mixed.result.ground_truth,
                                mixed.result.mix.samples, mixed.global_params,
                                [j \in DOMAIN mixed.fg_specs |-> mixed.fg_specs[j].track],
                                [j \in DOMAIN mixed.bg_specs |-> mixed.bg_specs[j].track]) } :
          mixed' = [mixed EXCEPT !.pc = "built", !.item = MisophoniaItem(vals)]
    /\ UNCHANGED << inputVars, planVars, itemVars, storeVars, analysisVars,
                    workerVars, padded, sampling, download >>

NextMix ==
    \/ BinauralMixCall
    \/ BuildFromMix

(***************************************************************************)
(* mixing.pad_and_normalize_audio_files, lines 35-69.  A raw sample is a   *)
(* positive integer; the sample x of track k scaled by rms_target / rms_k  *)
(* is the term Scaled(x, k), and a padding sample is ZeroSample.           *)
(***************************************************************************)
MaxLength == 3
Scaled(x, k) == [value |-> x, over_rms_of |-> k]
ZeroSample == [value |-> 0, over_rms_of |-> 0]

\* An audio of n samples, none of them zero.
RawAudio(n) == [i \in 1..n |-> i]

PadCalls(sc) ==
    IF sc = "pad"
    THEN { [pc |-> "call", fg_audios |-> fg, bg_audios |-> bg,
            starts |-> << >>, fg_padded |-> << >>, bg_padded |-> << >>] :
             fg \in UNION { [1..n -> { RawAudio(m) : m \in 1..MaxLength }] : n \in 1..2 },
             bg \in UNION { [1..n -> { RawAudio(m) : m \in 1..MaxLength }] : n \in 0..1 } }
    ELSE { [pc |-> "none"] }

\* Lines 60-61: audio * rms_target / _get_rms(audio) for the k-th audio.
Normalized(audio, k) == [i \in DOMAIN audio |-> Scaled(audio[i], k)]

\* np.random.randint(0, needed): the values the draw may take.
RandInt(low, high) == low..(high - 1)

Zeros(n) == [i \in 1..n |-> ZeroSample]

\* Lines 42-53: _add_padding with the drawn start.
AddPaddingBefore(audio, target_length, start) == Zeros(start) \o audio
AddPadding(audio, target_length, start) ==
    LET needed == target_length - Len(audio)
    IN  IF needed = 0 THEN audio
        ELSE Zeros(start) \o audio \o Zeros(needed - start)

\* Lines 55-69: the whole function; starts[k] is the draw made for the
\* k-th audio (foregrounds first), 0 where no draw is made.
PadAndNormalizeAudioFiles ==
    /\ padded.pc = "call"
    /\ LET audios == padded.fg_audios \o padded.bg_audios
           nf == Len(padded.fg_audios)
           max_length == SeqMax([k \in DOMAIN audios |-> Len(audios[k])])
       IN  \E starts \in [DOMAIN audios -> 0..MaxLength] :
             /\ \A k \in DOMAIN audios :
                   LET needed == max_length - Len(audios[k])
                   IN  IF needed = 0 THEN starts[k] = 0
                       ELSE starts[k] \in RandInt(0, needed)
             /\ padded' = [padded EXCEPT
                    !.pc = "returned",
                    !.starts = starts,
                    !.fg_padded = [k \in 1..nf |->
                        AddPadding(Normalized(audios[k], k), max_length, starts[k])],
                    !.bg_padded = [k \in 1..(Len(audios) - nf) |->
                        AddPadding(Normalized(audios[nf + k], nf + k), max_length,
                                   starts[nf + k])]]
    /\ UNCHANGED << inputVars, planVars, itemVars, storeVars, analysisVars,
                    workerVars, mixed, sampling, download >>

NextPad == PadAndNormalizeAudioFiles

(***************************************************************************)
(* add_experimental_pairs_to_dataset, lines 350-469.  An item of the       *)
(* loaded "test" split is given by the columns of its flattened row that   *)
(* the function reads; the item itself (_model) is named by its uuid.      *)
(***************************************************************************)
\* uuid, is_trigger, len(foregrounds), foreground_categories, and
\* foregrounds[0][source_item][validated_by].
PairRow(u, trig, nfg, cats, validated_by) ==
    [uuid |-> u, is_trigger |-> trig, len_foregrounds |-> nfg,
     foreground_categories |-> cats, validated_by |-> validated_by]

FOAMS == [names |-> << "FOAMS" >>]

PairCatalogue ==
    << PairRow(1, TRUE, 1, << "a" >>, FOAMS),
       PairRow(2, TRUE, 1, << "a" >>, None),
       PairRow(3, TRUE, 1, << "b" >>, None),
       PairRow(4, TRUE, 1, << "a" >>, FOAMS),
       PairRow(5, TRUE, 2, << "a", "b" >>, FOAMS),
       PairRow(6, TRUE, 1, << "b" >>, [names |-> << "FOAMS", "X" >>]),
       PairRow(7, FALSE, 1, << "c" >>, None),
       PairRow(8, FALSE, 1, << "d" >>, None),
       PairRow(9, FALSE, 1, << "c" >>, None),
       PairRow(10, TRUE, 1, << "b" >>, FOAMS),
       PairRow(11, FALSE, 1, << "d" >>, None) >>

\* sorted(...) of the categories used.
SortedCategories == << "a", "b", "c", "d" >>

PairsCalls(sc) ==
    IF sc = "pairs"
    THEN { [pc |-> "call",
            items |-> SelectSeq(PairCatalogue, LAMBDA r : r.uuid \in S),
            status |-> "none", trig_samples |-> << >>,
            control_samples |-> << >>, appended |-> << >>] :
             S \in SUBSET (1..Len(PairCatalogue)) }
    ELSE { [pc |-> "none"] }

\* Lines 365-370: the single-foreground, single-category items.
SingleForeground(items) ==
    SelectSeq(items, LAMBDA r : r.len_foregrounds = 1
                                 /\ Len(r.foreground_categories) = 1)

\* Lines 372-374: the column len(foregrounds[0][source_item][validated_by])
\* exists when the first foreground of some item of the split is validated.
HasValidatedColumn(items) == \E k \in DOMAIN items : items[k].validated_by # None

\* Line 380: is_foams.
IsFoams(r) == r.validated_by # None /\ r.validated_by.names[1] = "FOAMS"

\* Lines 385-386 and 392-393: the trigger categories, sorted, and the
\* trigger rows of one category by kind.
TriggerCategories(trigger_items) ==
    SelectSeq(SortedCategories,
              LAMBDA c : \E k \in DOMAIN trigger_items :
                             trigger_items[k].foreground_categories[1] = c)

InCategory(trigger_items, category, foams) ==
    SelectSeq(trigger_items,
              LAMBDA r : r.foreground_categories[1] = category /\ IsFoams(r) = foams)

\* rng.choice(index, size=size, replace=False) over n labels: the
\* positions it may return.
ChoiceWithReplacement(n, size) == [1..size -> 1..n]
Choice(n, size) ==
    { c \in [1..size -> 1..n] : \A i, j \in 1..size : c[i] = c[j] => i = j }

\* The largest number of rows of one kind in one category.
MaxInCategory == Len(PairCatalogue)

\* Lines 359-414: prepare, get_split, the filters, the assertions and the
\* sampling of the triggers and of their controls.
SamplePairs ==
    /\ sampling.pc = "call"
    /\ LET items == sampling.items
           all_items == SingleForeground(items)
           control_items == SelectSeq(all_items, LAMBDA r : ~r.is_trigger)
           trigger_items == SelectSeq(all_items, LAMBDA r : r.is_trigger)
           Fail(status) ==
               sampling' = [sampling EXCEPT !.pc = "raised", !.status = status]
       IN  IF items = << >>
           THEN Fail("ValueError")
           ELSE IF ~HasValidatedColumn(items)
           THEN Fail("AssertionError: no sounds are validated")
           ELSE IF \E k \in DOMAIN trigger_items :
                      /\ trigger_items[k].validated_by # None
                      /\ Len(trigger_items[k].validated_by.names) # 1
           THEN Fail("AssertionError: multiple validators")
           ELSE
             \E cats \in { TriggerCategories(trigger_items) } :
             \E fi \in [DOMAIN cats -> 1..MaxInCategory],
                ni \in [DOMAIN cats -> 1..MaxInCategory] :
               LET foams(k) == InCategory(trigger_items, cats[k], TRUE)
                   non_foams(k) == InCategory(trigger_items, cats[k], FALSE)
                   skipped(k) == Len(foams(k)) = 0 \/ Len(non_foams(k)) = 0
                   trig_samples ==
                       Flatten([k \in DOMAIN cats |->
                           IF skipped(k) THEN << >>
                           ELSE << foams(k)[fi[k]].uuid, non_foams(k)[ni[k]].uuid >>])
               IN  /\ \A k \in DOMAIN cats :
                         IF skipped(k) THEN fi[k] = 1 /\ ni[k] = 1
                         ELSE fi[k] <= Len(foams(k)) /\ ni[k] <= Len(non_foams(k))
                   /\ IF Len(control_items) < Len(trig_samples)
                      THEN sampling' = [sampling EXCEPT
                               !.pc = "raised",
                               !.status = "AssertionError: not enough control items",
                               !.trig_samples = trig_samples]
                      ELSE \E c \in Choice(Len(control_items), Len(trig_samples)) :
                             sampling' = [sampling EXCEPT
                               !.pc = "sampled", !.status = "ok",
                               !.trig_samples = trig_samples,
                               !.control_samples =
                                   [k \in DOMAIN c |-> control_items[c[k]].uuid]]
    /\ UNCHANGED << inputVars, planVars, itemVars, storeVars, analysisVars,
                    workerVars, mixed, padded, download >>

\* Lines 416-469: the derived items, one per sample, generated by
\* _get_paired_control_item and appended by save_split(if_exists="append").
AppendPairs ==
    /\ sampling.pc = "sampled"
    /\ sampling' = [sampling EXCEPT
           !.pc = "saved",
           !.appended = [k \in DOMAIN sampling.trig_samples |->
                           [is_trigger |-> FALSE,
                            paired_uuid |-> sampling.trig_samples[k],
                            control |-> sampling.control_samples[k]]]]
    /\ UNCHANGED << inputVars, planVars, itemVars, storeVars, analysisVars,
                    workerVars, mixed, padded, download >>

NextPairs ==
    \/ SamplePairs
    \/ AppendPairs

(***************************************************************************)
(* source_data/_downloading.py: download_files starts one task per file in *)
(* a pool of processes; every task reads and writes the state file it was  *)
(* given.  The content of the state file is "absent", "false" or "true"    *)
(* (the value of its "downloaded" key) or "torn" (opened for writing and   *)
(* not yet written, or written by two processes at once).                  *)
(***************************************************************************)
MaxFiles == 2
MaxRetries == 2

\* What the server sends for a file: bytes that match the md5 or not.
Served == {"good", "corrupt"}

DownloadCalls(sc) ==
    IF sc = "download"
    THEN UNION { { [status |-> "none",
                    max_retries |-> r,
                    served |-> s,
                    state_file |-> f,
                    overlap |-> FALSE,
                    tasks |-> [i \in 1..n |->
                                 [pc |-> "none", attempt |-> 0, error |-> "none"]],
                    files |-> [i \in 1..n |-> "absent"],
                    verified |-> {}] :
                      r \in 1..MaxRetries, s \in [1..n -> Served],
                      f \in {"absent", "false"} } : n \in 1..MaxFiles }
    ELSE { [status |-> "none"] }

\* _get_file_state(state_file).get("downloaded", False): json.load raises
\* on a file that does not hold one whole JSON document.
GetFileState(content) ==
    [raises |-> content = "torn", downloaded |-> content = "true"]

\* _is_correct_md5(save_path, md5) of a completely fetched file.
IsCorrectMd5(bytes) == bytes = "good"

Failed(error) == [pc |-> "failed", attempt |-> 0, error |-> error]

\* The tasks that hold the state file open for writing.
Writers == { j \in DOMAIN download.tasks :
                download.tasks[j].pc \in {"set_dump", "mark_dump"} }

\* download_files, lines 49-61: one task is submitted per file.
DownloadFiles ==
    /\ scenario = "download"
    /\ download.status = "none"
    /\ download' = [download EXCEPT
          !.status = "running",
          !.tasks = [i \in DOMAIN download.tasks |->
                        [pc |-> "queued", attempt |-> 0, error |-> "none"]]]
    /\ UNCHANGED << inputVars, planVars, itemVars, storeVars, analysisVars,
                    workerVars, mixed, padded, sampling >>

\* _download_file_single, lines 130-136: a process takes the task and reads
\* the state file; the task returns at once when it says downloaded.
DownloadFileSingle(i) ==
    /\ download.status = "running"
    /\ i \in DOMAIN download.tasks
    /\ download.tasks[i].pc = "queued"
    /\ LET s == GetFileState(download.state_file)
       IN  download' = [download EXCEPT !.tasks[i] =
              IF s.raises THEN Failed("JSONDecodeError")
              ELSE IF s.downloaded
              THEN [pc |-> "returned", attempt |-> 0, error |-> "none"]
              ELSE [pc |-> "set", attempt |-> 1, error |-> "none"]]
    /\ UNCHANGED << inputVars, planVars, itemVars, storeVars, analysisVars,
                    workerVars, mixed, padded, sampling >>

\* _set_file_state, lines 322-325: the state is read and the file is opened
\* with "w", which empties it.  Called with downloaded=False at the top of
\* an attempt (line 138) and with downloaded=True after the md5 check
\* (line 158).
SetFileStateOpen(i) ==
    /\ download.status = "running"
    /\ i \in DOMAIN download.tasks
    /\ download.tasks[i].pc \in {"set", "mark"}
    /\ LET s == GetFileState(download.state_file)
           t == download.tasks[i]
       IN  IF s.raises
           THEN download' = [download EXCEPT !.tasks[i] = Failed("JSONDecodeError")]
           ELSE download' = [download EXCEPT
                   !.state_file = "torn",
                   !.overlap = download.overlap \/ Writers # {},
                   !.tasks[i] = [t EXCEPT !.pc = IF t.pc = "set" THEN "set_dump"
                                                 ELSE "mark_dump"]]
    /\ UNCHANGED << inputVars, planVars, itemVars, storeVars, analysisVars,
                    workerVars, mixed, padded, sampling >>

\* _set_file_state, line 326: json.dump writes the document; the bytes of
\* two processes that had the file open together may mix.
SetFileStateDump(i) ==
    /\ download.status = "running"
    /\ i \in Writers
    /\ LET t == download.tasks[i]
           own == IF t.pc = "set_dump" THEN "false" ELSE "true"
       IN  \E content \in {own} \cup (IF download.overlap THEN {"torn"} ELSE {}) :
              download' = [download EXCEPT
                 !.state_file = content,
                 !.overlap = download.overlap /\ Writers \ {i} # {},
                 !.tasks[i] = [t EXCEPT !.pc = IF t.pc = "set_dump" THEN "fetch"
                                               ELSE "returned"]]
    /\ UNCHANGED << inputVars, planVars, itemVars, storeVars, analysisVars,
                    workerVars, mixed, padded, sampling >>

\* Lines 139-156: one attempt.  _download_single_inner fetches the whole
\* file or raises and leaves a part of it; after the last attempt the task
\* raises RuntimeError; a fetched file goes through the md5 check, which
\* raises ValueError on a mismatch.
DownloadSingleInner(i) ==
    /\ download.status = "running"
    /\ i \in DOMAIN download.tasks
    /\ download.tasks[i].pc = "fetch"
    /\ LET t == download.tasks[i]
       IN  \/ /\ IsCorrectMd5(download.served[i])
              /\ download' = [download EXCEPT
                    !.files[i] = download.served[i],
                    !.verified = @ \cup {i},
                    !.tasks[i] = [t EXCEPT !.pc = "mark"]]
           \/ /\ ~IsCorrectMd5(download.served[i])
              /\ download' = [download EXCEPT
                    !.files[i] = download.served[i],
                    !.tasks[i] = Failed("ValueError")]
           \/ download' = [download EXCEPT
                    !.files[i] = "partial",
                    !.tasks[i] = IF t.attempt = download.max_retries
                                 THEN Failed("RuntimeError")
                                 ELSE [t EXCEPT !.pc = "set",
                                                !.attempt = t.attempt + 1]]
    /\ UNCHANGED << inputVars, planVars, itemVars, storeVars, analysisVars,
                    workerVars, mixed, padded, sampling >>

\* download_files, lines 63-68 and the exit of the pool: RuntimeError when
\* a task raised, else the call goes on and returns.
DownloadFilesEnd ==
    /\ download.status = "running"
    /\ \A i \in DOMAIN download.tasks :
          download.tasks[i].pc \in {"returned", "failed"}
    /\ download' = [download EXCEPT !.status =
          IF \E i \in DOMAIN download.tasks : download.tasks[i].pc = "failed"
          THEN "RuntimeError" ELSE "returned"]
    /\ UNCHANGED << inputVars, planVars, itemVars, storeVars, analysisVars,
                    workerVars, mixed, padded, sampling >>

NextDownload ==
    \/ DownloadFiles
    \/ \E i \in 1..MaxFiles : DownloadFileSingle(i)
    \/ \E i \in 1..MaxFiles : SetFileStateOpen(i)
    \/ \E i \in 1..MaxFiles : SetFileStateDump(i)
    \/ \E i \in 1..MaxFiles : DownloadSingleInner(i)
    \/ DownloadFilesEnd

InitOf(scs) ==
    /\ scenario \in scs
    /\ source_data \in SourceConfigs
    /\ gen_items_by_split = None
    /\ args \in ArgsOf(scenario)
    /\ made = [via |-> "none"]
    /\ view \in ViewsOf(scenario)
    /\ called = [op |-> "none"]
    /\ pc = "idle"
    /\ rng_plan = [gen |-> args.random_seed, pos |-> 0]
    /\ tape = [g \in GenIds \cup ItemSeeds |-> << >>]
    /\ trig_cycle = None /\ ctrl_cycle = None /\ bg_cycle = None
    /\ is_trig_for_item = << >>
    /\ fg_indices_for_item = << >>
    /\ bg_indices_for_item = << >>
    /\ seeds_for_item = << >>
    /\ cur = EmptyCur
    /\ results = << >>
    /\ save_args \in SaveArgsOf(scenario)
    /\ disk \in DisksOf(scenario)
    /\ disk_before = disk
    /\ uuids = 0
    /\ save = NoSave
    /\ premade = None
    /\ loaded = NotLoaded
    /\ dummy \in DummyCalls(scenario)
    /\ splitting \in SplitCalls(scenario)
    /\ workers = [w \in 1..MaxWorkers |-> [pc |-> "idle"]]
    /\ mixed \in MixCalls(scenario)
    /\ padded \in PadCalls(scenario)
    /\ sampling \in PairsCalls(scenario)
    /\ download \in DownloadCalls(scenario)

NextPlan ==
    \/ GetSplit
    \/ DrawSeeds
    \/ DrawCounts
    \/ NextFg
    \/ NextBg
    \/ Spin
    \/ EndItem

(***************************************************************************)
(* _generate_one(index) called from several threads on the same view: each *)
(* thread first reads the plan entry and picks the source items (lines     *)
(* 150-158), then draws from its own generator, mixes and constructs the   *)
(* item (lines 160-190).  The steps of different threads interleave.       *)
(***************************************************************************)
WorkerRead(w, index) ==
    /\ scenario = "workers"
    /\ pc = "idle"
    /\ Len(results) = 1
    /\ results[1].status = "ok"
    /\ workers[w].pc \in {"idle", "returned"}
    /\ index \in 0..(args.num_samples - 1)
    /\ workers' = [workers EXCEPT ![w] =
           [pc |-> "read", index |-> index,
            p |-> PlannedItems(results[1], index, gen_items_by_split, args.split)]]
    /\ UNCHANGED << inputVars, lateVars, planVars, itemVars, storeVars, analysisVars >>

WorkerMix(w) ==
    /\ workers[w].pc = "read"
    /\ \E p \in { workers[w].p } :
       \E d \in DrawWords(p.seed, 1) :
       \E vals \in { MixedValues(args.split, p, d) } :
       \E r \in { MisophoniaItem(vals) } :
          /\ workers' = [workers EXCEPT ![w] =
                 [pc |-> "returned", index |-> workers[w].index,
                  values |-> vals, result |-> r]]
          /\ tape' = [tape EXCEPT ![p.seed] = IF Len(@) >= Len(d) THEN @ ELSE d]
    /\ UNCHANGED << inputVars, lateVars, itemVars, storeVars, analysisVars, pc, rng_plan,
                    trig_cycle, ctrl_cycle, bg_cycle, is_trig_for_item,
                    fg_indices_for_item, bg_indices_for_item, seeds_for_item,
                    cur, results, gen_items_by_split >>

NextWorkers ==
    \/ NextPlan
    \/ \E w \in 1..MaxWorkers, index \in 0..(MaxSamples - 1) : WorkerRead(w, index)
    \/ \E w \in 1..MaxWorkers : WorkerMix(w)

NextItem ==
    \/ NextPlan
    \/ Generate
    \/ Construct
    \/ GetPairedControlItem

Init == InitOf({"generate", "construct", "pair", "save"})

Next == NextItem \/ NextSave

\* Every way in which a MisophoniaItem comes to exist.
Spec == Init /\ [][Next]_vars

\* The planner alone, called MaxRuns times.
SpecPlan == InitOf({"plan"}) /\ [][NextPlan]_vars

\* One split view saved and splits loaded.
SpecSave == InitOf({"save"}) /\ [][NextSave]_vars

\* One planned view indexed from MaxWorkers threads.
SpecWorkers == InitOf({"workers"}) /\ [][NextWorkers]_vars

\* binaural_mix called once and an item built from its result.
SpecMix == InitOf({"mix"}) /\ [][NextMix]_vars

\* pad_and_normalize_audio_files called once.
SpecPad == InitOf({"pad"}) /\ [][NextPad]_vars

\* download_files called once.
SpecDownload == InitOf({"download"}) /\ [][NextDownload]_vars

\* add_experimental_pairs_to_dataset called once.
SpecPairs == InitOf({"pairs"}) /\ [][NextPairs]_vars

\* train_valid_test_split called once.
SpecSplit == InitOf({"split"}) /\ [][NextSplit]_vars

\* create_dummy_data called once.
SpecDummy == InitOf({"dummy"}) /\ [][NextDummy]_vars

\* A split view over an arbitrary get_one, indexed and iterated.
SpecView == InitOf({"index"}) /\ [][NextView]_vars

\* One planned view indexed by the client, and constructions by the client.
SpecItem == InitOf({"generate", "construct", "pair"}) /\ [][NextItem]_vars


(***************************************************************************)
(* The draws of the index cycles, read off the plan under construction.    *)
(***************************************************************************)
\* The item whose lists are being filled is not yet in the plan's lists.
InLoopBody == pc \in {"fg", "bg", "spin"}

\* All next(bg_cycle) results so far, in the order of the calls.
BgDraws ==
    Flatten(bg_indices_for_item)
        \o (IF InLoopBody THEN cur.bg_indices ELSE << >>)

\* All next(trig_cycle) (trig = TRUE) or next(ctrl_cycle) results so far.
RECURSIVE FgOf(_, _, _)
FgOf(flags, lists, trig) ==
    IF lists = << >> THEN << >>
    ELSE (IF Head(flags) = trig THEN Head(lists) ELSE << >>)
             \o FgOf(Tail(flags), Tail(lists), trig)

FgDraws(trig) ==
    FgOf(is_trig_for_item, fg_indices_for_item, trig)
        \o (IF InLoopBody /\ cur.is_trig = trig THEN cur.fg_indices ELSE << >>)

\* The cycles of the running call as (pool size, draws) pairs.
CycleDraws ==
    { [n |-> bg_cycle.n, draws |-> BgDraws] : x \in { c \in {bg_cycle} : c # None } }
    \cup { [n |-> trig_cycle.n, draws |-> FgDraws(TRUE)] :
             x \in { c \in {trig_cycle} : c # None } }
    \cup { [n |-> ctrl_cycle.n, draws |-> FgDraws(FALSE)] :
             x \in { c \in {ctrl_cycle} : c # None } }

Count(d, a) == Cardinality({ i \in DOMAIN d : d[i] = a })

\* The pass (block of n draws) that the i-th draw belongs to, from 0.
PassOf(n, i) == (i - 1) \div n

(***************************************************************************)
(* Properties of the Sampling Planner.                                     *)
(***************************************************************************)
\* C1: two get_split calls with the same random_seed, num_samples, count
\* ranges, ratio and pools return the same four plan arrays: every two
\* plans returned in a behaviour (whose arguments and pools are fixed) are
\* equal in flags, foreground lists, background lists and seeds.
PlanDeterminism ==
    \A i, j \in DOMAIN results :
        results[i].status = "ok" /\ results[j].status = "ok"
            => /\ results[i].is_trig_for_item = results[j].is_trig_for_item
               /\ results[i].fg_indices_for_item = results[j].fg_indices_for_item
               /\ results[i].bg_indices_for_item = results[j].bg_indices_for_item
               /\ results[i].seeds_for_item = results[j].seeds_for_item

\* Two plans of MaxSamples items were returned, with a reshuffled cycle.
PlanDeterminismWitness ==
    /\ Len(results) >= 2
    /\ results[1].status = "ok" /\ results[2].status = "ok"
    /\ Len(results[2].seeds_for_item) = MaxSamples
    /\ Len(Flatten(results[2].bg_indices_for_item)) > 2

\* C2: for a pool of n >= 1 items, the draws k*n .. k*n+n-1 of its cycle are
\* a permutation of 0..n-1 for every k, and after any number of draws the
\* numbers of times two items of the pool were drawn differ by at most one.
PoolExhaustion ==
    \A c \in CycleDraws :
        c.n >= 1 =>
          /\ \A k \in 0..Len(c.draws) :
                k * c.n + c.n <= Len(c.draws)
                    => { c.draws[k * c.n + i] : i \in 1..c.n } = 0..(c.n - 1)
          /\ \A a, b \in 0..(c.n - 1) :
                Count(c.draws, a) - Count(c.draws, b) <= 1

\* A pool of two items from which a second pass was completed.
PoolExhaustionWitness ==
    /\ bg_cycle # None /\ bg_cycle.n = 2
    /\ Len(BgDraws) = 4
    /\ pc = "idle"

\* C3 as stated: every run of n consecutive draws of a cycle, from any
\* position, is free of repeated indices.
AnyWindowIsPermutation ==
    \A c \in CycleDraws :
        c.n >= 1 =>
          \A s \in 1..Len(c.draws) :
             s + c.n - 1 <= Len(c.draws)
                => \A i, j \in s..(s + c.n - 1) :
                      c.draws[i] = c.draws[j] => i = j

\* C3 amended: two equal draws of a cycle that are fewer than n draws apart
\* belong to two different passes, so a run of n consecutive draws holds an
\* index at most twice and is free of repeats when it starts at a multiple
\* of n.
WindowRepeatsCrossPasses ==
    \A c \in CycleDraws :
        c.n >= 1 =>
          \A i, j \in DOMAIN c.draws :
             i < j /\ j - i < c.n /\ c.draws[i] = c.draws[j]
                => /\ PassOf(c.n, i) + 1 = PassOf(c.n, j)
                   /\ \A m \in (i + 1)..(j - 1) : c.draws[m] # c.draws[i]

\* The last index of a pass is drawn again as the first of the next pass.
WindowRepeatsCrossPassesWitness ==
    /\ bg_cycle # None /\ bg_cycle.n = 2
    /\ Len(BgDraws) >= 3
    /\ BgDraws[2] = BgDraws[3]

\* C10: when the ratio asks for trigger items and the split has none, or
\* asks for control items and the split has none, get_split raises before
\* anything is drawn from the plan's generator: no seed, count, flag or
\* index exists, no view is returned and no item is generated.
NoPool(lt) ==
    \A i \in DOMAIN source_data :
        ~(source_data[i].split = args.split /\ source_data[i].label_type = lt)

ConfigurationErrorCase ==
    \/ args.trig_to_control_ratio > 0 /\ NoPool("trigger")
    \/ args.trig_to_control_ratio < 100 /\ NoPool("control")

ConfigErrorBeforeAnyWork ==
    scenario = "generate" /\ ConfigurationErrorCase
        => /\ pc = "idle"
           /\ rng_plan.pos = 0
           /\ \A g \in DOMAIN tape : tape[g] = << >>
           /\ is_trig_for_item = << >> /\ seeds_for_item = << >>
           /\ fg_indices_for_item = << >> /\ bg_indices_for_item = << >>
           /\ \A k \in DOMAIN results : results[k].status = "ValueError"
           /\ made.via = "none"

\* get_split was called on a split without control items and raised.
ConfigErrorBeforeAnyWorkWitness ==
    /\ scenario = "generate"
    /\ NoPool("control") /\ ~NoPool("trigger")
    /\ args.trig_to_control_ratio = 50
    /\ Len(results) = 1 /\ results[1].status = "ValueError"

(***************************************************************************)
(* Properties of the MisophoniaItem constructor.                           *)
(***************************************************************************)
TracksOf(values) == Range(values.foregrounds) \cup Range(values.backgrounds)

HasGroundTruth(it) == it.ground_truth # None

\* The items a PremadeMisophoniaDataset holds after prepare().
PremadeItems ==
    IF premade = None THEN {}
    ELSE UNION { Range(premade[s].list) : s \in { x \in Splits : premade[x] # None } }

\* C7: a construction with is_trigger and no ground truth fails, one with a
\* ground truth and not is_trigger fails, and every item that exists, made
\* by a client, by _generate_one or by the read path from a metadata line,
\* has a ground truth exactly when it is a trigger item.
GroundTruthIffTrigger ==
    /\ made.via \in {"construct", "generate"} =>
          (made.values.is_trigger # HasGroundTruth(made.values)
                => ~made.result.ok)
    /\ made.via # "none" =>
          (made.result.ok
                => (HasGroundTruth(made.result.item) <=> made.result.item.is_trigger))
    /\ \A it \in PremadeItems : HasGroundTruth(it) <=> it.is_trigger
    /\ loaded.status = "view"
          => \A i \in DOMAIN loaded.items :
                HasGroundTruth(loaded.items[i]) <=> loaded.items[i].is_trigger

\* A client's construction of a trigger item without ground truth failed.
GroundTruthIffTriggerWitness ==
    /\ made.via = "construct"
    /\ made.values.is_trigger /\ ~HasGroundTruth(made.values)
    /\ \A t \in TracksOf(made.values) : t.source_item.split = made.values.split
    /\ ~made.result.ok

\* C8 as stated: a construction whose length differs from the number of
\* samples of its mix waveform fails.
LengthEnforcedAtConstruction ==
    made.via = "construct" /\ made.values.length # made.values.mix.samples
        => ~made.result.ok

\* C9: a construction with a track whose source item is of another split
\* than the item fails; an item generated through get_split(split) is made
\* of source items of the requested split only and passes the check.
SplitConsistency ==
    /\ made.via = "construct" =>
          ((\E t \in TracksOf(made.values) :
                t.source_item.split # made.values.split)
             => ~made.result.ok)
    /\ made.via = "generate" =>
          /\ \A t \in TracksOf(made.values) : t.source_item.split = args.split
          /\ made.values.split = args.split
          /\ made.result.ok

\* An item was generated from the planned source items of the split.
SplitConsistencyWitness ==
    /\ made.via = "generate"
    /\ made.result.ok
    /\ Len(made.values.foregrounds) >= 1 /\ Len(made.values.backgrounds) >= 2
    /\ args.split = "train"

(***************************************************************************)
(* Properties of save_split and of the read path.                          *)
(***************************************************************************)
OldDir == disk_before[save_args.split]

NewDir == disk[save_args.split]

\* The uuids of the audio files that metadata lines name.
StemsOf(lines) == { lines[i].mix.stem : i \in DOMAIN lines }

GtStemsOf(lines) ==
    { lines[i].ground_truth.stem :
        i \in { j \in DOMAIN lines : lines[j].ground_truth # None } }

\* C4: save_split with if_exists = "error" on an existing split directory
\* raises FileExistsError and nothing else happens: no future is submitted,
\* no item is generated, no uuid is issued, and the disk is as it was.
ErrorPolicyChangesNothing ==
    save_args.if_exists = "error" /\ OldDir.exists /\ save.status # "none"
        => /\ save.status = "FileExistsError"
           /\ save.futures = << >>
           /\ uuids = 0
           /\ disk = disk_before

\* The call raised on a directory holding two items, for a view of items.
ErrorPolicyChangesNothingWitness ==
    /\ save.status = "FileExistsError"
    /\ Len(OldDir.lines) = 2
    /\ Size >= 1

\* C5: after save_split of m items returned on an existing directory of k
\* persisted items: with "replace" the directory holds the m new lines and
\* their audio files and nothing of before; with "append" the k earlier
\* lines are the first k lines, unchanged, the earlier audio files are still
\* there, and the m new lines and files follow (k + m in total).
ReplaceAndAppend ==
    save.status = "returned" /\ OldDir.exists =>
      LET k == Len(OldDir.lines)
          m == Size
          new == IF save_args.if_exists = "append"
                 THEN SubSeq(NewDir.lines, k + 1, Len(NewDir.lines))
                 ELSE NewDir.lines
      IN  /\ Len(new) = m
          /\ Cardinality(StemsOf(new)) = m
          /\ StemsOf(new) \cap (OldDir.mixes \cup OldDir.ground_truths) = {}
          /\ \A i \in 1..m : new[i] = ToLine(save_args.items[i], new[i].uuid)
          /\ save_args.if_exists = "replace" =>
                /\ NewDir.lines = new
                /\ NewDir.mixes = StemsOf(new)
                /\ NewDir.ground_truths = GtStemsOf(new)
          /\ save_args.if_exists = "append" =>
                /\ Len(NewDir.lines) = k + m
                /\ SubSeq(NewDir.lines, 1, k) = OldDir.lines
                /\ NewDir.mixes = OldDir.mixes \cup StemsOf(new)
                /\ NewDir.ground_truths = OldDir.ground_truths \cup GtStemsOf(new)
          /\ \A s \in Splits \ {save_args.split} : disk[s] = disk_before[s]

\* Two items were appended to a directory of two items.
ReplaceAndAppendWitness ==
    /\ save.status = "returned"
    /\ save_args.if_exists = "append"
    /\ Len(OldDir.lines) = 2
    /\ Size = 2
    /\ save_args.items[1].is_trigger

\* The fields of an item other than its uuid and its audio paths.
NonPath(it) == [it EXCEPT !.uuid = None, !.mix = None, !.ground_truth = None]

\* A view was saved into a directory without earlier items, and the split
\* was then requested from an object that read the directory afterwards.
RoundTripCase ==
    /\ OldDir.lines = << >> /\ OldDir.mixes = {} /\ OldDir.ground_truths = {}
    /\ loaded.op = "get_split"
    /\ loaded.read_at = "returned"
    /\ loaded.split = save_args.split

\* The loaded items are the saved ones, one to one, with uuid and files.
RoundTripView ==
    /\ loaded.status = "view"
    /\ loaded.num_samples = Size
    /\ Len(loaded.items) = Size
    /\ \E pi \in Perms(Size) :
          \A i \in 1..Size :
             LET it == loaded.items[i]
             IN  /\ NonPath(it) = NonPath(save_args.items[pi[i]])
                 /\ it.uuid # None
                 /\ FileExists(disk, it.mix)
                 /\ it.is_trigger => /\ it.ground_truth # None
                                     /\ FileExists(disk, it.ground_truth)

DiskRead == IF loaded.read_at = "none" THEN disk_before ELSE disk

\* Whether that prepare() validated every line it read.
ReadOk == PreparePremade(None, DiskRead).ok

NoData(d) == ~(d.exists /\ d.has_metadata) \/ d.lines = << >>

\* C11: get_split(split) of a split whose metadata.jsonl is absent or has
\* no lines never returns a view and raises ValueError (no data available);
\* an absent metadata file does not make prepare() fail, and every other
\* split holds exactly the items of its own lines.
NoDataRaises ==
    /\ loaded.op = "get_split" /\ NoData(DiskRead[loaded.split])
          => /\ loaded.status # "view"
             /\ ReadOk => loaded.status = "ValueError"
    /\ premade # None /\ ReadOk
          => \A s \in Splits :
                IF ~(DiskRead[s].exists /\ DiskRead[s].has_metadata)
                THEN premade[s] = None
                ELSE /\ premade[s] # None
                     /\ premade[s].list =
                           [i \in DOMAIN DiskRead[s].lines |->
                               HandleLine(s, DiskRead[s].lines[i])]

\* "train" has an empty metadata.jsonl and "test" has none: requesting
\* "train" raised, and the item of "val" is loaded.
NoDataRaisesWitness ==
    /\ loaded.op = "get_split" /\ loaded.split = "train"
    /\ DiskRead["train"].has_metadata /\ DiskRead["train"].lines = << >>
    /\ ~DiskRead["test"].exists
    /\ loaded.status = "ValueError"
    /\ premade["test"] = None
    /\ Len(premade["val"].list) = 1

\* The futures of the save_split call whose row exists.
DoneFutures == { i \in DOMAIN save.futures : save.futures[i].st = "done" }

\* C12: each persisted item has one uuid that names its mix file and the
\* uuid field of its line and, exactly when it is a trigger item, its
\* ground-truth file; the mix and ground_truth fields are paths relative to
\* the split directory; no two items of a split directory share a uuid,
\* earlier items included.
OneUuidPerItem ==
    /\ \A i \in DoneFutures :
          LET row == save.futures[i].row
              item == save_args.items[i]
          IN  /\ row.uuid # None
              /\ row.uuid \notin StemsOf(OldDir.lines)
              /\ row.mix = RelPath("mixes", row.uuid)
              /\ row.uuid \in NewDir.mixes
              /\ (row.uuid \in NewDir.ground_truths) <=> item.is_trigger
              /\ row.ground_truth =
                    (IF item.is_trigger THEN RelPath("ground_truths", row.uuid)
                     ELSE None)
              /\ \A j \in DoneFutures :
                    save.futures[j].row.uuid = row.uuid => i = j
    /\ \A i, j \in DOMAIN NewDir.lines :
          NewDir.lines[i].uuid = NewDir.lines[j].uuid => i = j
    /\ \A i \in DOMAIN NewDir.lines :
          \/ i <= Len(OldDir.lines) /\ NewDir.lines[i] = OldDir.lines[i]
          \/ \E f \in DoneFutures : save.futures[f].row = NewDir.lines[i]

\* A control and a trigger item were appended to a directory of two items.
OneUuidPerItemWitness ==
    /\ save.status = "returned"
    /\ save_args.if_exists = "append"
    /\ Len(OldDir.lines) = 2
    /\ Size = 2
    /\ ~save_args.items[1].is_trigger /\ save_args.items[2].is_trigger

(***************************************************************************)
(* Properties of the split view.                                           *)
(***************************************************************************)
\* C13: for 0 <= i < n, split[i] is get_one(i); for -n <= i < 0 it is
\* get_one(i + n); for any other integer IndexError is raised and get_one
\* is not called.
IntegerIndexing ==
    called.op = "int" =>
        LET i == called.arg
            n == view.num_samples
            r == called.result
        IN  /\ 0 <= i /\ i < n
                => r.status = "ok" /\ r.value = GetOne(i) /\ r.calls = << i >>
            /\ 0 - n <= i /\ i < 0
                => r.status = "ok" /\ r.value = GetOne(i + n)
                   /\ r.calls = << i + n >>
            /\ i >= n \/ i < 0 - n
                => r.status = "IndexError" /\ r.calls = << >>

\* split[-1] on a view of MaxItems items returned the last item.
IntegerIndexingWitness ==
    /\ called.op = "int"
    /\ view.num_samples = MaxItems
    /\ called.arg = 0 - 1
    /\ called.result.status = "ok"
    /\ called.result.value = GetOne(MaxItems - 1)

\* [split[i] for i in indices]: the list of the values, or the IndexError
\* of the first index out of range.
ByIntegerIndexing(indices) ==
    LET rs == [k \in DOMAIN indices |-> IntIndex(view.num_samples, indices[k])]
    IN  IF \E k \in DOMAIN rs : rs[k].status # "ok"
        THEN [status |-> "IndexError"]
        ELSE [status |-> "ok", value |-> [k \in DOMAIN rs |-> rs[k].value]]

SameOutcome(r, e) ==
    /\ r.status = e.status
    /\ e.status = "ok" => r.value = e.value

\* C14 as stated: slice indexing, list indexing and iteration give what
\* integer indexing gives element by element, negative list entries being
\* normalised and entries out of range raising IndexError.
IndexingEquivalence ==
    /\ called.op = "slice" =>
          LET r == SliceIndices(called.arg, view.num_samples)
          IN  SameOutcome(called.result,
                          ByIntegerIndexing(RangeSeq(r.start, r.stop, r.step)))
    /\ called.op = "list" =>
          SameOutcome(called.result, ByIntegerIndexing(called.arg))
    /\ called.op = "iter" =>
          SameOutcome(called.result,
                      ByIntegerIndexing([k \in 1..view.num_samples |-> k - 1]))

\* The lines that the save_split call has written so far: those after the
\* lines that the conflict policy kept.
NewLines ==
    LET kept == IF OldDir.exists /\ save_args.if_exists = "replace"
                   /\ save.status # "none"
                THEN 0 ELSE Len(OldDir.lines)
    IN  SubSeq(NewDir.lines, kept + 1, Len(NewDir.lines))

\* The indices whose _generate_and_save had returned its row before the
\* first future failed.
CompletedBeforeFailure ==
    LET failed == { k \in DOMAIN save.events : save.events[k].outcome = "failed" }
    IN  IF failed = {} THEN {}
        ELSE LET first == CHOOSE k \in failed : \A j \in failed : k <= j
             IN  { save.events[k].index : k \in 1..(first - 1) }

\* C15 as stated: after save_split has raised, metadata.jsonl holds the line
\* of every index that had completed before the failure, in whatever order
\* the workers completed.
PartialProgressSurvives ==
    save.status = "raised"
        => \A i \in CompletedBeforeFailure :
              \E k \in DOMAIN NewLines : NewLines[k] = save.futures[i].row

\* The order in which the futures that returned a row ended.
RECURSIVE DoneIndices(_)
DoneIndices(es) ==
    IF es = << >> THEN << >>
    ELSE (IF Head(es).outcome = "done" THEN << Head(es).index >> ELSE << >>)
             \o DoneIndices(Tail(es))

CompletionOrder == DoneIndices(save.events)

\* C20 as stated: the lines are written in the order in which the workers
\* completed the items.
LinesInCompletionOrder ==
    save.status = "returned"
        => \A k \in DOMAIN NewLines :
              NewLines[k] = save.futures[CompletionOrder[k]].row

\* C20 amended: the lines are written in the order of the generation
\* indices, whatever the order in which the workers completed the items:
\* the k-th line written is the row of index k - 1.
LinesInIndexOrder ==
    /\ Len(NewLines) = save.next
    /\ \A k \in DOMAIN NewLines :
          /\ save.futures[k].st = "done"
          /\ NewLines[k] = save.futures[k].row

\* The second item completed before the first, and both lines are written.
LinesInIndexOrderWitness ==
    /\ save.status = "returned"
    /\ Size = 2
    /\ CompletionOrder = << 2, 1 >>
    /\ NewLines[1].is_trigger /\ ~NewLines[2].is_trigger

(***************************************************************************)
(* Properties of the paired control items.                                 *)
(***************************************************************************)
\* C16: an item derived from a (trigger, control) pair has split "test",
\* is not a trigger item, has no ground truth, is paired with the trigger's
\* uuid, keeps the trigger's backgrounds and global mixing parameters, and
\* has one foreground track: the control's foreground source rendered with
\* the trigger foreground's azimuth, elevation, level and reverb, from the
\* trigger foreground's start to start + the control audio's length.
PairedControlItem ==
    made.via = "pair" =>
        /\ made.control.uuid # None <=> made.result.ok
        /\ made.result.ok =>
             LET it == made.result.item
                 tfg == made.trig.foregrounds[1]
                 cfg == made.control.foregrounds[1]
             IN  /\ it.split = "test"
                 /\ ~it.is_trigger
                 /\ it.ground_truth = None
                 /\ it.paired_uuid = made.trig.uuid
                 /\ it.backgrounds = made.trig.backgrounds
                 /\ it.global_mixing_params = made.trig.global_mixing_params
                 /\ Len(it.foregrounds) = 1
                 /\ it.foregrounds[1].source_item = cfg.source_item
                 /\ it.foregrounds[1].azimuth = tfg.azimuth
                 /\ it.foregrounds[1].elevation = tfg.elevation
                 /\ it.foregrounds[1].level = tfg.level
                 /\ it.foregrounds[1].reverb = tfg.reverb
                 /\ it.foregrounds[1].start = tfg.start
                 /\ it.foregrounds[1].end = tfg.start + cfg.source_item.samples

\* An item was derived from a trigger with two backgrounds whose foreground
\* starts late, and a control whose audio is longer than the trigger's.
PairedControlItemWitness ==
    /\ made.via = "pair"
    /\ made.result.ok
    /\ Len(made.trig.backgrounds) = 2
    /\ made.trig.foregrounds[1].start = 1
    /\ made.control.foregrounds[1].source_item.samples = 3
    /\ made.result.item.foregrounds[1].end = 4

(***************************************************************************)
(* Properties of create_dummy_data.                                        *)
(***************************************************************************)
\* C17: in every row of the data frame, anchor or not, is_declared_trig is
\* 1 exactly when is_trig and is_declared_trig_pair are 1, is_foams is 1
\* only when is_trig is 1, and category is "ctrl" when is_trig is 0.
TriggerOnlyFields ==
    \A k \in DOMAIN dummy.df :
        LET r == dummy.df[k].row
        IN  /\ r.is_declared_trig = 1
                <=> (r.is_trig = 1 /\ r.is_declared_trig_pair = 1)
            /\ r.is_trig = 0 => r.is_declared_trig = 0
            /\ r.is_trig = 1 => r.is_declared_trig = r.is_declared_trig_pair
            /\ r.is_foams = 1 => r.is_trig = 1
            /\ r.is_trig = 0 => dummy.df[k].category = "ctrl"

\* The frame holds a control trial of a declared category that is not an
\* anchor, a declared trigger trial, and an anchor control row.
TriggerOnlyFieldsWitness ==
    /\ dummy.pc = "done"
    /\ \E k \in DOMAIN dummy.df :
          LET r == dummy.df[k].row
          IN  r.is_anchor = 0 /\ r.is_trig = 0 /\ r.is_declared_trig_pair = 1
    /\ \E k \in DOMAIN dummy.df :
          LET r == dummy.df[k].row
          IN  r.is_anchor = 0 /\ r.is_trig = 1 /\ r.is_declared_trig = 1
    /\ \E k \in DOMAIN dummy.df :
          LET r == dummy.df[k].row
          IN  r.is_anchor = 1 /\ r.is_trig = 0 /\ r.is_declared_trig_pair = 1

(***************************************************************************)
(* Properties of train_valid_test_split.                                   *)
(***************************************************************************)
\* C18: a sound with a validated_by marker is assigned to "test"; otherwise
\* a sound of FSD50K's eval split is assigned to "test" and one of its dev
\* split to "train" or "val"; only a sound in neither is split three ways
\* by its hash bucket; equal ids get equal splits.
SplitPriority ==
    splitting.pc = "returned" =>
        \A k \in DOMAIN splitting.splits :
            LET id == splitting.target_freesound_ids[k]
                h == splitting.md5_mod_100[id]
                split == splitting.splits[k]
            IN  /\ splitting.validated_by[k] # None => split = "test"
                /\ id \notin IsValidated(splitting) =>
                      /\ splitting.fsd50k[id] = "eval" => split = "test"
                      /\ splitting.fsd50k[id] = "dev" =>
                            /\ split \in {"train", "val"}
                            /\ split = "val" <=> h < ValCutoff(splitting)
                      /\ splitting.fsd50k[id] = NotInFsd50k =>
                            /\ split = "test" <=> h < TestCutoff
                            /\ split \in {"train", "val", "test"}
                /\ \A j \in DOMAIN splitting.splits :
                      splitting.target_freesound_ids[j] = id
                          => splitting.splits[j] = split

\* A validated FSD50K dev sound in a train bucket next to a dev sound in a
\* test bucket that was not validated.
SplitPriorityWitness ==
    /\ splitting.pc = "returned"
    /\ \E k, j \in DOMAIN splitting.splits :
          LET a == splitting.target_freesound_ids[k]
              b == splitting.target_freesound_ids[j]
          IN  /\ splitting.validated_by[k] # None
              /\ splitting.fsd50k[a] = "dev"
              /\ splitting.md5_mod_100[a] >= 30
              /\ b \notin IsValidated(splitting)
              /\ splitting.fsd50k[b] = "dev"
              /\ splitting.md5_mod_100[b] < TestCutoff

(***************************************************************************)
(* Properties of _generate_one called from several threads.                *)
(***************************************************************************)
\* The source items of the tracks of an item.
SourceItemsOf(tracks) == [j \in DOMAIN tracks |-> tracks[j].source_item]

\* What two generations of one index are compared on.
GeneratedFrom(w) ==
    [is_trigger |-> workers[w].values.is_trigger,
     foregrounds |-> workers[w].values.foregrounds,
     backgrounds |-> workers[w].values.backgrounds,
     global_mixing_params |-> workers[w].values.global_mixing_params]

\* C19: an item returned for index i carries the trigger flag and the
\* source items of the plan entry at i as the plan stands, and two items
\* returned for the same index, one after the other or at once from two
\* threads, have the same trigger flag, source items and mixing parameters.
SameIndexSameItem ==
    \A w \in 1..MaxWorkers :
        workers[w].pc = "returned" =>
            /\ \E p \in { PlannedItems(results[1], workers[w].index,
                                       gen_items_by_split, args.split) } :
                  /\ workers[w].values.is_trigger = p.is_trig
                  /\ SourceItemsOf(workers[w].values.foregrounds) = p.foreground_items
                  /\ SourceItemsOf(workers[w].values.backgrounds) = p.background_items
            /\ \A v \in 1..MaxWorkers :
                  (workers[v].pc = "returned" /\ workers[v].index = workers[w].index)
                      => GeneratedFrom(v) = GeneratedFrom(w)

\* Two threads hold items with a foreground generated for the same index of
\* a view of several items.
SameIndexSameItemWitness ==
    /\ workers[1].pc = "returned"
    /\ workers[2].pc = "returned"
    /\ workers[1].index = workers[2].index
    /\ args.num_samples > 1
    /\ Len(workers[1].values.foregrounds) > 0

(***************************************************************************)
(* Properties of the planner on empty pools.                               *)
(***************************************************************************)
\* Exactly one of the trigger and control pools of the split is empty and
\* the ratio lies strictly between 0 and 1.
OneFgPoolEmpty ==
    /\ NoPool("trigger") # NoPool("control")
    /\ args.trig_to_control_ratio > 0
    /\ args.trig_to_control_ratio < 100

\* C21 as stated: with exactly one foreground pool empty and a ratio
\* strictly between 0 and 1, no get_split call fails: every call that has
\* ended returned a plan.
FallbackToAvailablePool ==
    OneFgPoolEmpty => \A k \in DOMAIN results : results[k].status = "ok"

\* C21: with exactly one foreground pool empty and a ratio strictly between
\* 0 and 1, every get_split call raises ValueError before anything is drawn:
\* no item is composed from the non-empty pool and no plan is returned.
NoFallbackPool ==
    OneFgPoolEmpty =>
        /\ pc = "idle"
        /\ is_trig_for_item = << >>
        /\ fg_indices_for_item = << >>
        /\ \A k \in DOMAIN results : results[k].status = "ValueError"

\* get_split was called twice on a split that has trigger items and no
\* control items, with ratio 0.5, and raised both times.
NoFallbackPoolWitness ==
    /\ OneFgPoolEmpty
    /\ NoPool("control")
    /\ Len(results) = 2
    /\ results[2].status = "ValueError"

\* C22: get_split on a split without background items, with a background
\* count of at least 1 and no configuration error, ends by raising: it is
\* never inside the endless loop of the cycle of an empty pool, and no call
\* returns a plan.
EmptyBackgroundPoolRaises ==
    (/\ NoPool("background")
     /\ ~ConfigurationErrorCase
     /\ args.backgrounds_per_item[1] >= 1
     /\ args.num_samples >= 1)
        => /\ pc # "spin"
           /\ \A k \in DOMAIN results : results[k].status # "ok"

(***************************************************************************)
(* Properties of a returned plan.                                          *)
(***************************************************************************)
\* The size of a pool of the split that get_split was called with.
PoolSize(lt) == Len(PoolOf(gen_items_by_split, args.split, lt))

\* C23: a returned plan has num_samples entries in each of its four arrays;
\* at every index the number of foreground indices lies in the foreground
\* range and the number of background indices in the background range,
\* every foreground index is a position of the trigger pool when the flag
\* is true and of the control pool when it is false, and every background
\* index is a position of the background pool.
PlanShape ==
    \A k \in DOMAIN results :
        results[k].status = "ok" =>
            \E plan \in { results[k] } :
                /\ Len(plan.is_trig_for_item) = args.num_samples
                /\ Len(plan.fg_indices_for_item) = args.num_samples
                /\ Len(plan.bg_indices_for_item) = args.num_samples
                /\ Len(plan.seeds_for_item) = args.num_samples
                /\ \A i \in 1..args.num_samples :
                      /\ Len(plan.fg_indices_for_item[i]) >= args.foregrounds_per_item[1]
                      /\ Len(plan.fg_indices_for_item[i]) <= args.foregrounds_per_item[2]
                      /\ Len(plan.bg_indices_for_item[i]) >= args.backgrounds_per_item[1]
                      /\ Len(plan.bg_indices_for_item[i]) <= args.backgrounds_per_item[2]
                      /\ \A j \in Range(plan.fg_indices_for_item[i]) :
                            /\ j >= 0
                            /\ j < PoolSize(IF plan.is_trig_for_item[i]
                                            THEN "trigger" ELSE "control")
                      /\ \A j \in Range(plan.bg_indices_for_item[i]) :
                            j >= 0 /\ j < PoolSize("background")

\* A plan of two items was returned for ratio 1 on a split without control
\* items; its second item has two background indices.
PlanShapeWitness ==
    /\ Len(results) >= 1
    /\ results[1].status = "ok"
    /\ args.num_samples = 2
    /\ NoPool("control")
    /\ args.trig_to_control_ratio = 100
    /\ results[1].is_trig_for_item = << TRUE, TRUE >>
    /\ Len(results[1].bg_indices_for_item[2]) = 2

PaddingCorrect ==
    padded.pc = "returned" =>
        \E audios \in { padded.fg_audios \o padded.bg_audios },
           out \in { padded.fg_padded \o padded.bg_padded } :
        \E max_length \in { SeqMax([k \in DOMAIN audios |-> Len(audios[k])]) } :
            /\ Len(padded.fg_padded) = Len(padded.fg_audios)
            /\ Len(padded.bg_padded) = Len(padded.bg_audios)
            /\ \A k \in DOMAIN audios :
                  \E length \in { Len(audios[k]) }, start \in { padded.starts[k] } :
                      /\ Len(out[k]) = max_length
                      /\ 0 <= start /\ start <= max_length - length
                      /\ start + length <= max_length
                      /\ length = max_length => start = 0
                      /\ SubSeq(out[k], start + 1, start + length)
                             = Normalized(audios[k], k)
                      /\ \A i \in 1..max_length :
                            (i <= start \/ i > start + length)
                                => out[k][i] = ZeroSample

\* A foreground of one sample was placed at position 1 of a window of three
\* samples set by the background.
PaddingCorrectWitness ==
    /\ padded.pc = "returned"
    /\ Len(padded.fg_audios[1]) = 1
    /\ Len(padded.bg_audios) = 1
    /\ Len(padded.bg_audios[1]) = 3
    /\ padded.starts[1] = 1
    /\ padded.fg_padded[1] = << ZeroSample, Scaled(1, 1), ZeroSample >>

(***************************************************************************)
(* Properties of the pair sampling.                                        *)
(***************************************************************************)
\* The single-foreground, single-category rows of the split by kind.
EligibleRows(trig) ==
    { r \in Range(sampling.items) :
        /\ r.len_foregrounds = 1 /\ Len(r.foreground_categories) = 1
        /\ r.is_trigger = trig }

\* The categories with a validated and a non-validated eligible trigger.
PairedCategories ==
    { c \in Range(SortedCategories) :
        /\ \E r \in EligibleRows(TRUE) :
              r.foreground_categories[1] = c /\ r.validated_by # None
        /\ \E r \in EligibleRows(TRUE) :
              r.foreground_categories[1] = c /\ r.validated_by = None }

\* The uuids selected as triggers of a category, validated or not.
SelectedOf(c, validated) ==
    { k \in DOMAIN sampling.trig_samples :
        \E r \in EligibleRows(TRUE) :
            /\ r.uuid = sampling.trig_samples[k]
            /\ r.foreground_categories[1] = c
            /\ (r.validated_by # None) = validated }

\* What the call does when it gets as far as the sampling: one validated
\* and one non-validated trigger per paired category and none of any other
\* category, one control per trigger with no control taken twice, and an
\* assertion error with nothing appended when the controls do not suffice.
SamplingOutcome ==
    /\ (sampling.status = "AssertionError: not enough control items")
          <=> Cardinality(EligibleRows(FALSE)) < 2 * Cardinality(PairedCategories)
    /\ sampling.pc = "raised" => sampling.appended = << >>
    /\ sampling.pc \in {"sampled", "saved"} =>
          /\ \A c \in Range(SortedCategories) :
                IF c \in PairedCategories
                THEN /\ Cardinality(SelectedOf(c, TRUE)) = 1
                     /\ Cardinality(SelectedOf(c, FALSE)) = 1
                ELSE SelectedOf(c, TRUE) \cup SelectedOf(c, FALSE) = {}
          /\ Len(sampling.trig_samples) = 2 * Cardinality(PairedCategories)
          /\ Len(sampling.control_samples) = Len(sampling.trig_samples)
          /\ \A k \in DOMAIN sampling.control_samples :
                \E r \in EligibleRows(FALSE) : r.uuid = sampling.control_samples[k]
          /\ \A i, j \in DOMAIN sampling.control_samples :
                sampling.control_samples[i] = sampling.control_samples[j] => i = j
    /\ sampling.pc = "saved" =>
          /\ Len(sampling.appended) = Len(sampling.trig_samples)
          /\ \A k \in DOMAIN sampling.appended :
                /\ sampling.appended[k].paired_uuid = sampling.trig_samples[k]
                /\ sampling.appended[k].control = sampling.control_samples[k]

\* The call on a split with items has ended.
PairsEnded ==
    sampling.pc \in {"raised", "sampled", "saved"} /\ sampling.items # << >>

\* The first foreground of some item of the split is validated, and no
\* eligible trigger has more than one validator.
CanSample ==
    /\ HasValidatedColumn(sampling.items)
    /\ \A r \in EligibleRows(TRUE) :
          r.validated_by # None => Len(r.validated_by.names) = 1

LowestFailed ==
    LET failed == { i \in DOMAIN save.futures : save.futures[i].st = "failed" }
    IN  IF failed = {} THEN Size + 1
        ELSE CHOOSE i \in failed : \A j \in failed : i <= j

\* The lines written by the call are the rows of the indices 0..j-1 in
\* that order; once the call raises, j is the lowest failing index.
PrefixOfRows ==
    save.status \in {"running", "raising", "raised", "returned"} =>
        /\ Len(NewLines) <= Size
        /\ Len(NewLines) = save.next
        /\ \A k \in DOMAIN NewLines :
              /\ save.futures[k].st = "done"
              /\ NewLines[k] = save.futures[k].row
        /\ Len(NewLines) < LowestFailed
        /\ save.status \in {"raising", "raised"} =>
              Len(NewLines) = LowestFailed - 1
        /\ save.status = "returned" => Len(NewLines) = Size

\* A step that changes metadata.jsonl during the call appends the whole row
\* of the next index, and is taken by the main thread.
OneLineByMainThread ==
    (save.status \in {"running", "raising"}
         /\ disk'[save_args.split].lines # disk[save_args.split].lines)
        => /\ save.status = "running"
           /\ save'.next = save.next + 1
           /\ save'.futures = save.futures
           /\ disk'[save_args.split].lines =
                 Append(disk[save_args.split].lines, save.futures[save.next + 1].row)

\* C27: at every moment of a save_split call the lines it has appended are
\* those of the generation indices 0..j-1 in increasing order, each written
\* whole by the main thread; when the call raises because a generation
\* failed, they are exactly those of the indices below the lowest failing
\* index.
LinesArePrefix == []PrefixOfRows /\ [][OneLineByMainThread]_vars

\* The call raised with one line written: index 0 was saved, index 1
\* failed, and index 2 had been saved before the failure was re-raised.
LinesArePrefixWitness ==
    /\ save.status = "raised"
    /\ Size = 2
    /\ save_args.n_workers = 2
    /\ Len(NewLines) = 1
    /\ save.futures[2].st = "failed"
    /\ save.events[1].index = 2

\* C28: audio before metadata: in every state of save_split, after a failure
\* and under every interleaving of the workers, each metadata line the call
\* has written names a mix file that is on disk, and its ground-truth file
\* is on disk when the line's is_trigger is true.
AudioBeforeMetadata ==
    \A k \in DOMAIN NewLines :
        LET line == NewLines[k]
        IN  /\ line.mix.stem = line.uuid
            /\ line.uuid \in NewDir.mixes
            /\ line.is_trigger =>
                  /\ line.ground_truth # None
                  /\ line.ground_truth.stem \in NewDir.ground_truths

\* The line of a trigger item is in metadata.jsonl while a later index is
\* still being generated by another worker.
AudioBeforeMetadataWitness ==
    /\ save.status = "running"
    /\ save_args.n_workers = 2
    /\ Len(NewLines) = 1
    /\ NewLines[1].is_trigger
    /\ \E i \in DOMAIN save.futures : save.futures[i].st = "running"

\* The line of a trigger item is in metadata.jsonl after the call raised.
AudioBeforeMetadataAfterFailure ==
    /\ save.status = "raised"
    /\ Len(NewLines) >= 1
    /\ NewLines[1].is_trigger

\* Whether the split has a metadata.jsonl in the directory the object read.
HasMetadata(split) == DiskRead[split].exists /\ DiskRead[split].has_metadata

\* C29: a failed load leaves the object unprepared: when prepare() raised
\* while validating a split's lines, _items_by_split is still None, every
\* later prepare() or get_split() on the object raises the same error, and
\* get_split neither reports that no data is available for a split whose
\* metadata file exists nor returns a view.
FailedLoadLeavesUnprepared ==
    (loaded.op # "none" /\ ~ReadOk /\ ~PreparePremade(None, disk).ok)
        => /\ premade = None
           /\ loaded.status = "ValidationError"
           /\ ~(/\ loaded.op = "get_split"
                /\ loaded.status = "ValueError"
                /\ HasMetadata(loaded.split))
           /\ loaded.status # "view"

\* After a prepare() that raised on a line of "train", get_split("val")
\* reported that no data is available although val/metadata.jsonl holds
\* one valid line.
FailedLoadReportsNoData ==
    /\ ~ReadOk
    /\ loaded.op = "get_split" /\ loaded.split = "val"
    /\ loaded.status = "ValueError"
    /\ Len(DiskRead["val"].lines) = 1
    /\ premade # None /\ premade["val"] = [list |-> << >>]

(***************************************************************************)
(* Properties of download_files with one state file for several files.    *)
(***************************************************************************)
\* File i was fetched completely by its task and passed its md5 check.
FetchedAndVerified(i) ==
    download.files[i] = "good" /\ i \in download.verified

\* C30: when download_files was given several files and one state file and
\* returns without raising, every listed file was fetched completely and
\* passed its md5 check, whatever the interleaving of the tasks; and the
\* state file says downloaded = true only when that holds for all files.
AllFetchedWhenReturned ==
    scenario = "download" =>
        /\ download.status = "returned" =>
              \A i \in DOMAIN download.tasks : FetchedAndVerified(i)
        /\ download.state_file = "true" =>
              \A i \in DOMAIN download.tasks : FetchedAndVerified(i)

\* download_files returned although the second file was never requested:
\* its task started after the task of the first file had recorded
\* downloaded = true.
ReturnedWithoutFetching ==
    /\ download.status = "returned"
    /\ Len(download.served) = 2
    /\ FetchedAndVerified(1)
    /\ download.files[2] = "absent"
    /\ download.tasks[2].pc = "returned"

=============================================================================
